---- MODULE Spec2Model ----
(***************************************************************************)
(* gemara2ampel: the merge/reconciliation engine (ampel.MergePolicy) and   *)
(* the workspace mode of the ampel_export command (handleWorkspaceMode).   *)
(*                                                                         *)
(* Policies are Go values built from pointers: a *Policy holds a slice of  *)
(* *Tenet.  The model keeps a heap of tenet objects (a sequence indexed by *)
(* address) so that aliasing and in-place writes are visible.              *)
(***************************************************************************)
EXTENDS Integers, Sequences, FiniteSets, TLC

\* ------------------------------------------------------------------------
\* Bounds of the model
\* ------------------------------------------------------------------------

\* longest tenet list of a policy handed to MergePolicy
MaxTenets == 2

\* tenet identifiers of the plans of the latest source
SourceIds == {"req-001-plan-001-0", "req-002-plan-001-0"}

\* tenet identifiers that occur in the policies: those of the latest source
\* and one of a plan that the source no longer has
TenetIds == SourceIds \cup {"req-009-plan-001-0"}

\* ------------------------------------------------------------------------
\* Data model (Policy, Meta, Tenet, PredicateSpec, Output)
\* ------------------------------------------------------------------------

\* a nil *Policy
Nil == [nil |-> TRUE]

\* a nil *PredicateSpec: the tenet has no predicate-type filter
NoPredicates == <<>>

\* a nil Outputs map
NoOutputs == {}

\* the runtime identifier FromPolicy stamps on every tenet
DefaultRuntime == "cel@v14.0"

\* the non-identifier fields of the tenets that occur: a freshly generated
\* tenet, a hand-edited one (own expression and output bindings, filter and
\* runtime removed) and one whose expression was emptied
TenetBodies ==
    { [Title |-> "Verify trusted builder", Runtime |-> DefaultRuntime,
       Predicates |-> <<"https://slsa.dev/provenance/v1">>,
       Code |-> "attestation.predicateType == slsa", Outputs |-> NoOutputs],
      [Title |-> "Original name", Runtime |-> "",
       Predicates |-> NoPredicates,
       Code |-> "MANUALLY EDITED", Outputs |-> {<<"key", "context.key">>}],
      [Title |-> "Original name", Runtime |-> DefaultRuntime,
       Predicates |-> NoPredicates,
       Code |-> "", Outputs |-> NoOutputs] }

\* type Tenet struct
Tenet ==
    { [Id |-> id, Title |-> b.Title, Runtime |-> b.Runtime,
       Predicates |-> b.Predicates, Code |-> b.Code, Outputs |-> b.Outputs] :
         id \in TenetIds, b \in TenetBodies }

\* the policy-level fields (Id, Meta, Context) of a previously stored policy
StoredHead ==
    [Id |-> "test-policy",
     Meta |-> [Runtime |-> DefaultRuntime, Description |-> "Old description",
               AssertMode |-> "AND", Controls |-> <<>>, Version |-> 1,
               Enforce |-> ""],
     Context |-> {<<"builder-id", "https://old.example/builder">>}]

\* the policy-level fields of the policy generated from the latest source
SourceHead ==
    [Id |-> "test-policy-v2",
     Meta |-> [Runtime |-> DefaultRuntime, Description |-> "New description",
               AssertMode |-> "OR", Controls |-> <<"SC-01">>, Version |-> 2,
               Enforce |-> "ON"],
     Context |-> {<<"builder-id", "https://new.example/builder">>,
                  <<"threshold", "7">>}]

\* all sequences over S of length at most n
SeqUpTo(S, n) == UNION { [1..k -> S] : k \in 0..n }

\* policies as values (the tenets themselves instead of pointers to them)
\* with the given heads and tenets
PolicyValues(heads, tenets) ==
    { [Id |-> h.Id, Meta |-> h.Meta, Context |-> h.Context, Tenets |-> ts] :
         h \in heads, ts \in SeqUpTo(tenets, MaxTenets) }

\* the policies passed as existing: any stored or earlier generated head,
\* any tenets
ExistingPolicies == PolicyValues({StoredHead, SourceHead}, Tenet)

\* the policies passed as generated: the head of the latest source, tenets
\* with the ids of its plans
GeneratedPolicies ==
    PolicyValues({SourceHead}, { t \in Tenet : t.Id \in SourceIds })

\* type Policy struct, as MergePolicy receives it: Tenets is a []*Tenet
PolicyAt(v, addrs) ==
    [Id |-> v.Id, Meta |-> v.Meta, Context |-> v.Context, Tenets |-> addrs]

\* the value of the policy p in the heap h (every pointer followed)
Deref(h, p) ==
    IF p = Nil THEN Nil
    ELSE [Id |-> p.Id, Meta |-> p.Meta, Context |-> p.Context,
          Tenets |-> [i \in DOMAIN p.Tenets |-> h[p.Tenets[i]]]]

\* type MergeStats struct
MergeStats == [TenetsPreserved |-> 0, TenetsAdded |-> 0, TenetsRemoved |-> 0]

\* a nil error
NoError == [nil |-> TRUE]

\* type ValidationError struct
ValidationError(field, index, message, cause) ==
    [Field |-> field, Index |-> index, Message |-> message, Cause |-> cause]

\* ------------------------------------------------------------------------
\* Validation
\* ------------------------------------------------------------------------

\* func (t *Tenet) Validate() error
TenetValidate(t) ==
    IF t.Code = ""
    THEN ValidationError("code", 0, "tenet code (CEL expression) is required", NoError)
    ELSE NoError

\* Validate that checks the policy id only
ValidateIdOnly(p) ==
    IF p.Id = ""
    THEN ValidationError("id", 0, "policy id is required", NoError)
    ELSE NoError

\* func (p *AmpelPolicy) Validate() error; p is a policy value
Validate(p) ==
    IF p.Id = ""
    THEN ValidationError("id", 0, "policy id is required", NoError)
    ELSE IF Len(p.Tenets) = 0
    THEN ValidationError("tenets", 0, "policy must have at least one tenet", NoError)
    ELSE LET bad == { i \in DOMAIN p.Tenets : TenetValidate(p.Tenets[i]) # NoError }
         IN  IF bad = {} THEN NoError
             ELSE LET i == CHOOSE j \in bad : \A k \in bad : j <= k
                  IN  ValidationError("tenets", i - 1, "", TenetValidate(p.Tenets[i]))

\* ------------------------------------------------------------------------
\* MergePolicy
\* ------------------------------------------------------------------------

\* mergeTenet with the expression taken from the generated tenet
mergeTenetGeneratedCode(h, e, g) ==
    [heap |-> Append(h, [Id |-> h[g].Id, Title |-> h[g].Title,
                         Runtime |-> h[g].Runtime,
                         Predicates |-> NoPredicates,
                         Code |-> h[g].Code, Outputs |-> h[e].Outputs]),
     ptr |-> Len(h) + 1]

\* mergeTenet that updates the existing tenet in place and returns it
mergeTenetInPlace(h, e, g) ==
    [heap |-> [h EXCEPT ![e] = [Id |-> h[g].Id, Title |-> h[g].Title,
                                Runtime |-> h[g].Runtime,
                                Predicates |-> NoPredicates,
                                Code |-> h[e].Code, Outputs |-> h[e].Outputs]],
     ptr |-> e]

\* mergeTenet: allocates a new tenet that takes Id, Title and Runtime from
\* the generated tenet (address g) and Code and Outputs from the existing
\* one (address e); every field not named in the literal is zero
mergeTenet(h, e, g) ==
    [heap |-> Append(h, [Id |-> h[g].Id, Title |-> h[g].Title,
                         Runtime |-> h[g].Runtime,
                         Predicates |-> NoPredicates,
                         Code |-> h[e].Code, Outputs |-> h[e].Outputs]),
     ptr |-> Len(h) + 1]

\* existingTenets: the lookup map of the existing policy's tenets by Id; a
\* later tenet with the same Id overwrites an earlier one
existingTenetsOf(h, existing) ==
    LET ids == { h[existing.Tenets[i]].Id : i \in DOMAIN existing.Tenets }
        last(id) == CHOOSE i \in DOMAIN existing.Tenets :
                       /\ h[existing.Tenets[i]].Id = id
                       /\ \A j \in DOMAIN existing.Tenets :
                             h[existing.Tenets[j]].Id = id => j <= i
    IN  [id \in ids |-> existing.Tenets[last(id)]]

\* the loop without the append of a tenet that no existing tenet matches
RECURSIVE processTenetsDropsNew(_, _, _, _, _, _)
processTenetsDropsNew(h, existingTenets, generated, i, tenets, stats) ==
    IF i > Len(generated.Tenets)
    THEN [heap |-> h, Tenets |-> tenets, stats |-> stats]
    ELSE LET generatedTenet == generated.Tenets[i]
         IN  IF h[generatedTenet].Id \in DOMAIN existingTenets
             THEN LET m == mergeTenet(h, existingTenets[h[generatedTenet].Id],
                                      generatedTenet)
                  IN  processTenetsDropsNew(m.heap, existingTenets, generated,
                                    i + 1, Append(tenets, m.ptr),
                                    [stats EXCEPT !.TenetsPreserved = @ + 1])
             ELSE processTenetsDropsNew(h, existingTenets, generated, i + 1,
                                tenets,
                                [stats EXCEPT !.TenetsAdded = @ + 1])

\* the loop over generated.Tenets, from index i on: tenets is merged.Tenets
\* so far, stats the counters so far
RECURSIVE processTenets(_, _, _, _, _, _)
processTenets(h, existingTenets, generated, i, tenets, stats) ==
    IF i > Len(generated.Tenets)
    THEN [heap |-> h, Tenets |-> tenets, stats |-> stats]
    ELSE LET generatedTenet == generated.Tenets[i]
         IN  IF h[generatedTenet].Id \in DOMAIN existingTenets
             THEN LET m == mergeTenet(h, existingTenets[h[generatedTenet].Id],
                                      generatedTenet)
                  IN  processTenets(m.heap, existingTenets, generated, i + 1,
                                    Append(tenets, m.ptr),
                                    [stats EXCEPT !.TenetsPreserved = @ + 1])
             ELSE processTenets(h, existingTenets, generated, i + 1,
                                Append(tenets, generatedTenet),
                                [stats EXCEPT !.TenetsAdded = @ + 1])

\* the ids of existingTenets that generatedTenetIDs does not hold
removedTenets(h, existingTenets, generated) ==
    LET generatedTenetIDs ==
            { h[generated.Tenets[i]].Id : i \in DOMAIN generated.Tenets }
    IN  Cardinality({ id \in DOMAIN existingTenets : id \notin generatedTenetIDs })

\* the merged policy started from the existing policy's metadata
newMergedExistingMeta(existing, generated) ==
    [Id |-> generated.Id, Meta |-> existing.Meta,
     Context |-> generated.Context, Tenets |-> <<>>]

\* merged := &Policy{...}: the merged policy starts from the generated
\* policy's Id, Meta and Context, with an empty tenet list
newMerged(existing, generated) ==
    [Id |-> generated.Id, Meta |-> generated.Meta,
     Context |-> generated.Context, Tenets |-> <<>>]

\* the failing return with the merged policy still handed out
returnMergedOnError(merged, stats, verr) ==
    IF verr # NoError
    THEN [merged |-> merged, stats |-> stats,
          err |-> [msg |-> "merged policy validation failed", wraps |-> verr]]
    ELSE [merged |-> merged, stats |-> stats, err |-> NoError]

\* the two returns of MergePolicy: verr is what merged.Validate() returned
returnMerged(merged, stats, verr) ==
    IF verr # NoError
    THEN [merged |-> Nil, stats |-> stats,
          err |-> [msg |-> "merged policy validation failed", wraps |-> verr]]
    ELSE [merged |-> merged, stats |-> stats, err |-> NoError]

\* func MergePolicy(existing, generated *Policy) (*Policy, MergeStats, error)
\* in the heap h; the result carries the heap after the call
MergePolicy(h, existing, generated) ==
    LET existingTenets == existingTenetsOf(h, existing)
        loop == processTenets(h, existingTenets, generated, 1, <<>>, MergeStats)
        merged == [newMerged(existing, generated) EXCEPT !.Tenets = loop.Tenets]
        stats == [loop.stats EXCEPT
                    !.TenetsRemoved = removedTenets(h, existingTenets, generated)]
        ret == returnMerged(merged, stats, Validate(Deref(loop.heap, merged)))
    IN  [heap |-> loop.heap, merged |-> ret.merged, stats |-> ret.stats,
         err |-> ret.err]

\* ------------------------------------------------------------------------
\* The policy file: encoding/json with the struct tags of the policy types
\* ------------------------------------------------------------------------

\* the member n of the JSON object doc, or zero when it is absent
Member(doc, n, zero) == IF n \in DOMAIN doc THEN doc[n] ELSE zero

\* json.Marshal of a Tenet, a JSON object being its present members by
\* name: "code" is always written, every other member
\* is tagged omitempty
MarshalTenet(t) ==
    LET value(n) == CASE n = "id" -> t.Id
                      [] n = "title" -> t.Title
                      [] n = "runtime" -> t.Runtime
                      [] n = "predicates" -> t.Predicates
                      [] n = "code" -> t.Code
                      [] n = "outputs" -> t.Outputs
        names == ({"code"}
                   \cup (IF t.Id # "" THEN {"id"} ELSE {})
                   \cup (IF t.Title # "" THEN {"title"} ELSE {})
                   \cup (IF t.Runtime # "" THEN {"runtime"} ELSE {})
                   \cup (IF t.Predicates # NoPredicates THEN {"predicates"} ELSE {})
                   \cup (IF t.Outputs # NoOutputs THEN {"outputs"} ELSE {}))
    IN  [n \in names |-> value(n)]

\* json.Unmarshal into a Tenet: an absent member leaves the zero value
UnmarshalTenet(doc) ==
    [Id |-> Member(doc, "id", ""), Title |-> Member(doc, "title", ""),
     Runtime |-> Member(doc, "runtime", ""),
     Predicates |-> Member(doc, "predicates", NoPredicates),
     Code |-> Member(doc, "code", ""),
     Outputs |-> Member(doc, "outputs", NoOutputs)]

\* json.MarshalIndent of a policy: "id" is always written, "meta", "context"
\* and "tenets" are tagged omitempty
MarshalIndent(p) ==
    LET value(n) == CASE n = "id" -> p.Id
                      [] n = "meta" -> p.Meta
                      [] n = "context" -> p.Context
                      [] n = "tenets" ->
                            [i \in DOMAIN p.Tenets |-> MarshalTenet(p.Tenets[i])]
        names == ({"id"}
                   \cup (IF p.Meta # Nil THEN {"meta"} ELSE {})
                   \cup (IF p.Context # {} THEN {"context"} ELSE {})
                   \cup (IF Len(p.Tenets) > 0 THEN {"tenets"} ELSE {}))
    IN  [n \in names |-> value(n)]

\* the output path holds no file
Absent == [kind |-> "absent", doc |-> <<>>]

\* the output path holds a file whose content is not JSON
Garbage == [kind |-> "garbage", doc |-> <<>>]

\* the output path holds a file with the JSON document doc
JSONFile(doc) == [kind |-> "json", doc |-> doc]

\* json.Unmarshal(data, &existingPolicy) of the content of the file f
Unmarshal(f) ==
    IF f.kind # "json"
    THEN [policy |-> Nil, ok |-> FALSE]
    ELSE [policy |->
            [Id |-> Member(f.doc, "id", ""),
             Meta |-> Member(f.doc, "meta", Nil),
             Context |-> Member(f.doc, "context", {}),
             Tenets |-> LET ts == Member(f.doc, "tenets", <<>>)
                        IN  [i \in DOMAIN ts |-> UnmarshalTenet(ts[i])]],
          ok |-> TRUE]

\* os.WriteFile(outputPath, data, 0600): a write that fails is one that could
\* not open the file, which leaves the path as it was
WriteFile(f, data, writeFails) ==
    IF writeFails THEN [file |-> f, ok |-> FALSE]
    ELSE [file |-> JSONFile(data), ok |-> TRUE]

\* ------------------------------------------------------------------------
\* Workspace mode of the command
\* ------------------------------------------------------------------------

\* two policy values laid out as MergePolicy receives them: the tenets of
\* the existing policy at the first addresses, those of the generated policy
\* after them
Layout(ev, gv) ==
    [heap |-> ev.Tenets \o gv.Tenets,
     existing |-> PolicyAt(ev, [i \in 1..Len(ev.Tenets) |-> i]),
     generated |-> PolicyAt(gv, [i \in 1..Len(gv.Tenets) |-> Len(ev.Tenets) + i])]

\* the call with its arguments exchanged: MergePolicy(ampelPolicy, existingPolicy)
MergeValuesExchanged(ev, gv) ==
    LET l == Layout(gv, ev)
        r == MergePolicy(l.heap, l.existing, l.generated)
    IN  [merged |-> Deref(r.heap, r.merged), stats |-> r.stats, err |-> r.err]

\* ampel.MergePolicy(existingPolicy, ampelPolicy) as the command calls it
MergeValues(ev, gv) ==
    LET l == Layout(ev, gv)
        r == MergePolicy(l.heap, l.existing, l.generated)
    IN  [merged |-> Deref(r.heap, r.merged), stats |-> r.stats, err |-> r.err]

\* what one run of the command reports: step tells a run from an edit of
\* the file by hand
Report(errName, outcome, force, ids, st) ==
    [step |-> "run", err |-> errName, outcome |-> outcome,
     forceOverwrite |-> force, generatedIds |-> ids, stats |-> st]

\* no run of the command yet
NoRun ==
    [step |-> "none", err |-> "nil", outcome |-> "none",
     forceOverwrite |-> FALSE, generatedIds |-> {}, stats |-> MergeStats]

\* the file was last touched by hand, not by a run: what was done to it
ByHand(what) == [NoRun EXCEPT !.step = what]

\* handleWorkspaceMode that regenerates the file when the merge fails
handleWorkspaceModeRegenerates(f, ampelPolicy, forceOverwrite, readFails, writeFails) ==
    LET ids == { ampelPolicy.Tenets[i].Id : i \in DOMAIN ampelPolicy.Tenets }
        policyExists == f.kind # "absent"
    IN  IF policyExists /\ ~forceOverwrite
        THEN IF readFails
             THEN [file |-> f,
                   run |-> Report("read", "none", forceOverwrite, ids, MergeStats)]
             ELSE LET u == Unmarshal(f)
                  IN  IF ~u.ok
                      THEN [file |-> f,
                            run |-> Report("parse", "none", forceOverwrite, ids, MergeStats)]
                      ELSE LET r == MergeValues(u.policy, ampelPolicy)
                           IN  IF r.err # NoError
                               THEN [file |-> JSONFile(MarshalIndent(ampelPolicy)),
                                     run |-> Report("merge", "none", forceOverwrite, ids, r.stats)]
                               ELSE LET w == WriteFile(f, MarshalIndent(r.merged), writeFails)
                                    IN  [file |-> w.file,
                                         run |-> IF w.ok
                                                 THEN Report("nil", "updated", forceOverwrite, ids, r.stats)
                                                 ELSE Report("write", "none", forceOverwrite, ids, r.stats)]
        ELSE LET w == WriteFile(f, MarshalIndent(ampelPolicy), writeFails)
             IN  [file |-> w.file,
                  run |-> IF w.ok
                          THEN Report("nil", IF forceOverwrite THEN "regenerated" ELSE "created",
                                      forceOverwrite, ids, MergeStats)
                          ELSE Report("write", "none", forceOverwrite, ids, MergeStats)]

\* func handleWorkspaceMode(ampelPolicy *ampel.Policy, defaultOutputFile string) error
\* on the output path holding f; the result is the path's content afterwards
\* and what the run reported
handleWorkspaceMode(f, ampelPolicy, forceOverwrite, readFails, writeFails) ==
    LET ids == { ampelPolicy.Tenets[i].Id : i \in DOMAIN ampelPolicy.Tenets }
        policyExists == f.kind # "absent"
    IN  IF policyExists /\ ~forceOverwrite
        THEN IF readFails
             THEN [file |-> f,
                   run |-> Report("read", "none", forceOverwrite, ids, MergeStats)]
             ELSE LET u == Unmarshal(f)
                  IN  IF ~u.ok
                      THEN [file |-> f,
                            run |-> Report("parse", "none", forceOverwrite, ids, MergeStats)]
                      ELSE LET r == MergeValues(u.policy, ampelPolicy)
                           IN  IF r.err # NoError
                               THEN [file |-> f,
                                     run |-> Report("merge", "none", forceOverwrite, ids, r.stats)]
                               ELSE LET w == WriteFile(f, MarshalIndent(r.merged), writeFails)
                                    IN  [file |-> w.file,
                                         run |-> IF w.ok
                                                 THEN Report("nil", "updated", forceOverwrite, ids, r.stats)
                                                 ELSE Report("write", "none", forceOverwrite, ids, r.stats)]
        ELSE LET w == WriteFile(f, MarshalIndent(ampelPolicy), writeFails)
             IN  [file |-> w.file,
                  run |-> IF w.ok
                          THEN Report("nil", IF forceOverwrite THEN "regenerated" ELSE "created",
                                      forceOverwrite, ids, MergeStats)
                          ELSE Report("write", "none", forceOverwrite, ids, MergeStats)]

\* the policies FromPolicy hands to the workspace mode: they passed
\* Validate, their tenets are freshly generated ones
FromPolicyResults ==
    { p \in PolicyValues({SourceHead},
                         { t \in Tenet : /\ t.Id \in SourceIds
                                         /\ t.Runtime = DefaultRuntime
                                         /\ t.Outputs = NoOutputs
                                         /\ t.Predicates # NoPredicates }) :
        Validate(p) = NoError }

\* the expressions a user writes into the file by hand
ManualCodes == {"MANUALLY EDITED", ""}

\* the ids of the tenets the file f holds
TenetIdsOf(f) ==
    LET p == Unmarshal(f).policy
    IN  IF p = Nil THEN {} ELSE { p.Tenets[i].Id : i \in DOMAIN p.Tenets }

\* the ids under which the file f holds an expression written by hand
HandEdited(f) ==
    LET p == Unmarshal(f).policy
    IN  IF p = Nil THEN {}
        ELSE { p.Tenets[i].Id : i \in { j \in DOMAIN p.Tenets :
                                           p.Tenets[j].Code \in ManualCodes } }

\* ------------------------------------------------------------------------
\* Strings: the functions of Go's strings and strconv packages the mapping
\* uses. A string is a TLA+ string; Len, \o and SubSeq act on its bytes.
\* ------------------------------------------------------------------------

\* the byte s[i-1] of Go, as a string of length one
Char(s, i) == SubSeq(s, i, i)

\* s[from-1:] of Go
StrFrom(s, from) == SubSeq(s, from, Len(s))

\* strings.Contains(s, substr), substr not empty
Contains(s, substr) ==
    \E i \in 1..(Len(s) - Len(substr) + 1) :
        SubSeq(s, i, i + Len(substr) - 1) = substr

\* strings.Index(s, substr) + 1: the position of the first occurrence of
\* substr in s, 0 when there is none
Index(s, substr) ==
    IF Contains(s, substr)
    THEN CHOOSE i \in 1..(Len(s) - Len(substr) + 1) :
            /\ SubSeq(s, i, i + Len(substr) - 1) = substr
            /\ \A j \in 1..(i - 1) : SubSeq(s, j, j + Len(substr) - 1) # substr
    ELSE 0

UpperLetters == "ABCDEFGHIJKLMNOPQRSTUVWXYZ"
LowerLetters == "abcdefghijklmnopqrstuvwxyz"

\* unicode.ToLower on one ASCII byte
LowerChar(c) ==
    LET i == Index(UpperLetters, c)
    IN  IF i = 0 THEN c ELSE Char(LowerLetters, i)

\* strings.ToLower(s)
RECURSIVE ToLower(_)
ToLower(s) ==
    IF Len(s) = 0 THEN ""
    ELSE IF Len(s) = 1 THEN LowerChar(s)
    ELSE LET half == Len(s) \div 2
         IN  ToLower(SubSeq(s, 1, half)) \o ToLower(StrFrom(s, half + 1))

\* the bytes strings.TrimSpace removes
WhiteSpace == {" ", "\t", "\n", "\r"}

\* strings.TrimSpace(s)
RECURSIVE TrimSpace(_)
TrimSpace(s) ==
    IF s = "" THEN ""
    ELSE IF Char(s, 1) \in WhiteSpace THEN TrimSpace(StrFrom(s, 2))
    ELSE IF Char(s, Len(s)) \in WhiteSpace THEN TrimSpace(SubSeq(s, 1, Len(s) - 1))
    ELSE s

\* strings.Split(s, sep), sep not empty
RECURSIVE Split(_, _)
Split(s, sep) ==
    LET i == Index(s, sep)
    IN  IF i = 0 THEN <<s>>
        ELSE <<SubSeq(s, 1, i - 1)>> \o Split(StrFrom(s, i + Len(sep)), sep)

\* strings.Join(elems, sep)
RECURSIVE Join(_, _)
Join(elems, sep) ==
    IF Len(elems) = 0 THEN ""
    ELSE IF Len(elems) = 1 THEN elems[1]
    ELSE elems[1] \o sep \o Join(SubSeq(elems, 2, Len(elems)), sep)

Digits == "0123456789"

\* the loop of strconv.ParseUint in base 10 over the digits of s, n being
\* the value accumulated so far
RECURSIVE parseDigits(_, _)
parseDigits(s, n) ==
    IF s = "" THEN n
    ELSE parseDigits(StrFrom(s, 2), n * 10 + (Index(Digits, Char(s, 1)) - 1))

\* strconv.ParseInt(s, 10, 64): an optional sign, then one or more decimal
\* digits. The range error of a numeral beyond 64 bits needs 19 digits,
\* more than any segment of the versions below.
ParseInt(s) ==
    LET signed == s # "" /\ Char(s, 1) \in {"+", "-"}
        body == IF signed THEN StrFrom(s, 2) ELSE s
    IN  IF body = "" \/ \E i \in 1..Len(body) : Index(Digits, Char(body, i)) = 0
        THEN [v |-> 0, ok |-> FALSE]
        ELSE [v |-> IF signed /\ Char(s, 1) = "-"
                    THEN 0 - parseDigits(body, 0) ELSE parseDigits(body, 0),
              ok |-> TRUE]

\* the strings of at most n bytes over the bytes chars
RECURSIVE Strings(_, _)
Strings(chars, n) ==
    IF n = 0 THEN {""}
    ELSE LET shorter == Strings(chars, n - 1)
         IN  shorter \cup { c \o t : c \in chars, t \in shorter }

\* ------------------------------------------------------------------------
\* buildMetadata: the major version of the target policy
\* ------------------------------------------------------------------------

\* the longest version string of the source policies tried
MaxVersionLen == 4

\* the bytes the version strings are made of
VersionChars == {"2", "7", ".", "v", "-"}

\* the version strings of the source policies
Versions == Strings(VersionChars, MaxVersionLen) \cup {"2.7.3", "1.0.0", "vX"}

\* buildMetadata that parses the last segment of the version
buildMetadataLastSegment(Version) ==
    IF Version # ""
    THEN LET parts == Split(Version, ".")
             r == ParseInt(parts[Len(parts)])
         IN  IF Len(parts) > 0 /\ r.ok THEN r.v ELSE 0
    ELSE 0

\* func buildMetadata(policy *gemara.Policy, ampelPolicy *Policy) error:
\* the value it stores in ampelPolicy.Meta.Version for policy.Metadata.Version
buildMetadata(Version) ==
    IF Version # ""
    THEN LET parts == Split(Version, ".")
             r == ParseInt(parts[1])
         IN  IF Len(parts) > 0 /\ r.ok THEN r.v ELSE 0
    ELSE 0

\* ------------------------------------------------------------------------
\* Attestation-type inference and the expression generator
\* ------------------------------------------------------------------------

\* InferAttestationType with checks for SBOM keywords after the first check
InferAttestationTypeWithSBOM(evidenceReq) ==
    LET lowerReq == ToLower(evidenceReq)
    IN  IF \E keyword \in {"slsa", "provenance", "builder", "build provenance"} :
               Contains(lowerReq, keyword)
        THEN "https://slsa.dev/provenance/v1"
        ELSE IF Contains(lowerReq, "spdx") THEN "https://spdx.dev/Document"
        ELSE IF Contains(lowerReq, "cyclonedx") THEN "https://cyclonedx.org/bom"
        ELSE IF Contains(lowerReq, "sbom") THEN "https://spdx.dev/Document"
        ELSE IF \E keyword \in {"vulnerabilit", "cve", "security scan", "vuln scan"} :
               Contains(lowerReq, keyword)
        THEN "https://in-toto.io/Statement/v0.1"
        ELSE IF Contains(lowerReq, "in-toto") \/ Contains(lowerReq, "attestation")
        THEN "https://in-toto.io/Statement/v0.1"
        ELSE ""

\* func InferAttestationType(evidenceReq string) string
InferAttestationType(evidenceReq) ==
    LET lowerReq == ToLower(evidenceReq)
    IN  IF \E keyword \in {"slsa", "provenance", "builder", "build provenance"} :
               Contains(lowerReq, keyword)
        THEN "https://slsa.dev/provenance/v1"
        ELSE IF \E keyword \in {"vulnerabilit", "cve", "security scan", "vuln scan"} :
               Contains(lowerReq, keyword)
        THEN "https://in-toto.io/Statement/v0.1"
        ELSE IF Contains(lowerReq, "in-toto") \/ Contains(lowerReq, "attestation")
        THEN "https://in-toto.io/Statement/v0.1"
        ELSE ""

\* var DefaultCELTemplates = map[string]string{...}
DefaultCELTemplates ==
    [ n \in {"slsa-provenance-builder", "slsa-provenance-builder-in",
             "slsa-provenance-materials", "slsa-provenance-buildtype",
             "sbom-present", "sbom-spdx", "sbom-cyclonedx",
             "vulnerability-scan-no-critical", "vulnerability-scan-threshold",
             "vulnerability-scanner", "generic-predicate-type",
             "generic-field-equals", "generic-field-in"} |->
        CASE n = "slsa-provenance-builder" ->
               "attestation.predicateType == \"https://slsa.dev/provenance/v1\" && attestation.predicate.builder.id == \"{{.BuilderId}}\""
          [] n = "slsa-provenance-builder-in" ->
               "attestation.predicateType == \"https://slsa.dev/provenance/v1\" && attestation.predicate.builder.id in [{{.BuilderIds}}]"
          [] n = "slsa-provenance-materials" ->
               "attestation.predicateType == \"https://slsa.dev/provenance/v1\" && all(attestation.predicate.materials, m, m.digest.sha256 != \"\")"
          [] n = "slsa-provenance-buildtype" ->
               "attestation.predicateType == \"https://slsa.dev/provenance/v1\" && attestation.predicate.buildType == \"{{.BuildType}}\""
          [] n = "sbom-present" ->
               "attestation.predicateType == \"https://spdx.dev/Document\" || attestation.predicateType == \"https://cyclonedx.org/bom\""
          [] n = "sbom-spdx" ->
               "attestation.predicateType == \"https://spdx.dev/Document\""
          [] n = "sbom-cyclonedx" ->
               "attestation.predicateType == \"https://cyclonedx.org/bom\""
          [] n = "vulnerability-scan-no-critical" ->
               "attestation.predicateType == \"https://in-toto.io/Statement/v0.1\" && attestation.predicate.scanner.result.summary.critical == 0"
          [] n = "vulnerability-scan-threshold" ->
               "attestation.predicateType == \"https://in-toto.io/Statement/v0.1\" && attestation.predicate.scanner.result.summary.critical == 0 && attestation.predicate.scanner.result.summary.high < {{.MaxHigh}}"
          [] n = "vulnerability-scanner" ->
               "attestation.predicateType == \"https://in-toto.io/Statement/v0.1\" && attestation.predicate.scanner.vendor == \"{{.Scanner}}\""
          [] n = "generic-predicate-type" ->
               "attestation.predicateType == \"{{.PredicateType}}\""
          [] n = "generic-field-equals" ->
               "attestation.predicate.{{.FieldPath}} == \"{{.ExpectedValue}}\""
          [] n = "generic-field-in" ->
               "attestation.predicate.{{.FieldPath}} in [{{.AllowedValues}}]" ]

\* var MethodTypeToCELTemplate = map[string]string{...}
MethodTypeToCELTemplate ==
    [ t \in {"automated", "gate", "behavioral", "autoremediation"} |->
        IF t = "gate" THEN "generic-predicate-type" ELSE "generic-field-equals" ]

\* an error value of Go: its message and the error it wraps
Errorf(msg, cause) == [msg |-> msg, cause |-> cause]

\* the bytes of a field name in a template action
IdentChars ==
    "abcdefghijklmnopqrstuvwxyzABCDEFGHIJKLMNOPQRSTUVWXYZ0123456789_"

\* the action between {{ and }} is a field of the data: a dot and a name
IsFieldAction(action) ==
    /\ Len(action) > 1
    /\ Char(action, 1) = "."
    /\ \A i \in 2..Len(action) : Contains(IdentChars, Char(action, i))

\* template.New("cel").Parse(templateStr) for templates made of text and
\* field actions: the nodes of the template, or the failure to parse an
\* action that is not closed or is not a field
RECURSIVE ParseTemplate(_)
ParseTemplate(templateStr) ==
    LET i == Index(templateStr, "{{")
    IN  IF i = 0
        THEN [ok |-> TRUE,
              nodes |-> IF templateStr = "" THEN <<>>
                        ELSE <<[kind |-> "text", s |-> templateStr]>>]
        ELSE LET text == SubSeq(templateStr, 1, i - 1)
                 rest == StrFrom(templateStr, i + 2)
                 j == Index(rest, "}}")
                 action == TrimSpace(SubSeq(rest, 1, j - 1))
                 more == ParseTemplate(StrFrom(rest, j + 2))
             IN  IF j = 0 \/ ~IsFieldAction(action) \/ ~more.ok
                 THEN [ok |-> FALSE, nodes |-> <<>>]
                 ELSE [ok |-> TRUE,
                       nodes |-> (IF text = "" THEN <<>>
                                  ELSE <<[kind |-> "text", s |-> text]>>)
                                 \o <<[kind |-> "field", s |-> StrFrom(action, 2)]>>
                                 \o more.nodes]

\* tmpl.Execute(&buf, params) on a map: a field the map has no key for
\* prints as <no value>
RECURSIVE ExecuteTemplate(_, _)
ExecuteTemplate(nodes, params) ==
    IF Len(nodes) = 0 THEN ""
    ELSE (IF nodes[1].kind = "text" THEN nodes[1].s
          ELSE IF nodes[1].s \in DOMAIN params THEN params[nodes[1].s]
          ELSE "<no value>")
         \o ExecuteTemplate(SubSeq(nodes, 2, Len(nodes)), params)

\* func GenerateCEL(templateStr string, params map[string]interface{}) (string, error)
GenerateCEL(templateStr, params) ==
    LET tmpl == ParseTemplate(templateStr)
    IN  IF ~tmpl.ok
        THEN [cel |-> "", err |-> Errorf("failed to parse CEL template", "parse")]
        ELSE [cel |-> TrimSpace(ExecuteTemplate(tmpl.nodes, params)),
              err |-> NoError]

\* func selectTemplateFromEvidence(evidenceReq string) string
selectTemplateFromEvidence(evidenceReq) ==
    LET lowerReq == ToLower(evidenceReq)
        has(keyword) == Contains(lowerReq, keyword)
    IN  IF (has("slsa") \/ has("provenance")) /\ has("builder")
        THEN "slsa-provenance-builder"
        ELSE IF (has("slsa") \/ has("provenance")) /\ has("material")
        THEN "slsa-provenance-materials"
        ELSE IF (has("slsa") \/ has("provenance"))
                /\ (has("buildtype") \/ has("build type"))
        THEN "slsa-provenance-buildtype"
        ELSE IF has("sbom") \/ has("software bill of materials")
        THEN IF has("spdx") THEN "sbom-spdx"
             ELSE IF has("cyclonedx") THEN "sbom-cyclonedx"
             ELSE "sbom-present"
        ELSE IF (has("vulnerabilit") \/ has("cve"))
                /\ (has("critical") \/ has("no critical"))
        THEN "vulnerability-scan-no-critical"
        ELSE IF (has("vulnerabilit") \/ has("cve")) /\ has("threshold")
        THEN "vulnerability-scan-threshold"
        ELSE IF (has("vulnerabilit") \/ has("cve")) /\ has("scanner")
        THEN "vulnerability-scanner"
        ELSE ""

\* func generateBasicCEL(attestationType, evidenceReq string) (string, []string, error)
generateBasicCEL(attestationType, evidenceReq) ==
    IF attestationType # ""
    THEN [cel |-> "attestation.predicateType == \"" \o attestationType \o "\"",
          attestationTypes |-> <<attestationType>>, err |-> NoError]
    ELSE [cel |-> "true /* TODO: Implement verification logic based on: "
                  \o evidenceReq \o " */",
          attestationTypes |-> <<>>, err |-> NoError]

\* the local templateName of GenerateCELFromMethod: the template the
\* evidence selects, else the one mapped to the type of the method, else ""
templateNameOf(method, evidenceReq) ==
    LET selected == selectTemplateFromEvidence(evidenceReq)
    IN  IF selected = "" /\ method.Type \in DOMAIN MethodTypeToCELTemplate
        THEN MethodTypeToCELTemplate[method.Type]
        ELSE selected

\* a Go map with one more entry: m[k] = v
Put(m, k, v) == [x \in DOMAIN m \cup {k} |-> IF x = k THEN v ELSE m[x]]

\* the accepted values of a parameter, each quoted
Quoted(values) == [i \in DOMAIN values |-> "\"" \o values[i] \o "\""]

\* func buildCELParams(parameters []gemara.Parameter) map[string]interface{}
RECURSIVE buildCELParams(_)
buildCELParams(parameters) ==
    IF Len(parameters) = 0 THEN <<>>
    ELSE LET param == parameters[Len(parameters)]
             celParams == buildCELParams(SubSeq(parameters, 1, Len(parameters) - 1))
             contextRef == "context[\"" \o param.Id \o "\"]"
         IN  IF Len(param.AcceptedValues) > 1
             THEN Put(Put(celParams, param.Id, contextRef),
                      param.Id \o "-list", Join(Quoted(param.AcceptedValues), ", "))
             ELSE Put(celParams, param.Id, contextRef)

\* gemara.Parameter values of the source policies
Parameter(id, label, description, acceptedValues) ==
    [Id |-> id, Label |-> label, Description |-> description,
     AcceptedValues |-> acceptedValues]

BuilderIdParameter ==
    Parameter("builder-id", "Builder ID", "Expected SLSA builder ID",
              <<"https://github.com/slsa-framework/slsa-github-generator">>)

\* a parameter whose id is the name of a placeholder of the built-in templates
ScannerParameter == Parameter("Scanner", "Scanner", "", <<"trivy", "grype", "snyk">>)

\* a parameter to be provided at run time
RuntimeParameter == Parameter("runtime-value", "Runtime Value", "", <<>>)

\* the words the evidence texts are made of: the keywords of the
\* classification, in varying case, and words that are none
EvidenceWords ==
    <<"SLSA", "provenance", "Builder", "material", "buildtype", "build type",
      "sbom", "vulnerabilities", "CVE", "critical", "threshold", "scanner",
      "attestation", "review">>

\* the most words of EvidenceWords one evidence text names
MaxWords == 3

\* the words at the positions S, in the order of EvidenceWords
RECURSIVE WordsAt(_)
WordsAt(S) ==
    IF S = {} THEN <<>>
    ELSE LET i == CHOOSE x \in S : \A y \in S : x <= y
         IN  <<EvidenceWords[i]>> \o WordsAt(S \ {i})

\* the evidence requirement texts of the assessment plans
EvidenceTexts ==
    { Join(WordsAt(S), " ") :
        S \in { T \in SUBSET DOMAIN EvidenceWords : Cardinality(T) <= MaxWords } }
    \cup {"SLSA provenance with trusted builder", "internal spreadsheet review",
          "Vulnerability scan with no critical findings"}

\* words of the texts handed to InferAttestationType: keywords of its three
\* checks in varying case, names of SBOM formats, and words that are none
InferenceWords ==
    {"SLSA", "Provenance", "builder", "Vulnerability", "vulnerable", "CVE",
     "Security Scan", "vuln scan", "scan", "in-toto", "Attestation", "SBOM",
     "spdx", "CycloneDX", "review"}

\* the texts handed to InferAttestationType: the evidence texts, those of
\* TestInferAttestationType, and one or two of the words above
InferenceTexts ==
    EvidenceTexts
    \cup {"SLSA provenance attestation", "Build provenance with builder details",
          "Vulnerability scan results", "CVE scanning with no critical issues",
          "Generic attestation", "Unknown requirement"}
    \cup InferenceWords
    \cup { a \o " " \o b : a \in InferenceWords, b \in InferenceWords }

\* template sets passed to the generator: the built-in set, the built-in
\* set with two templates overridden by ones that do not parse, and none
TemplateSets ==
    { DefaultCELTemplates,
      [DefaultCELTemplates EXCEPT
          !["generic-field-equals"] = "attestation.predicate.{{.FieldPath == \"x\"",
          !["slsa-provenance-builder"] =
              "attestation.predicate.builder.id == {{.builder-id}}"],
      <<>> }

\* func GenerateCELFromMethod(method, evidenceReq, params, templates)
\*     (string, []string, error)
GenerateCELFromMethod(method, evidenceReq, params, templates) ==
    LET attestationType == InferAttestationType(evidenceReq)
        attestationTypes == IF attestationType # "" THEN <<attestationType>>
                            ELSE <<>>
        templateName == templateNameOf(method, evidenceReq)
    IN  IF templateName \notin DOMAIN templates
        THEN generateBasicCEL(attestationType, evidenceReq)
        ELSE LET g == GenerateCEL(templates[templateName], params)
             IN  IF g.err # NoError
                 THEN [cel |-> "", attestationTypes |-> attestationTypes,
                       err |-> Errorf("failed to generate CEL", g.err)]
                 ELSE [cel |-> g.cel, attestationTypes |-> attestationTypes,
                       err |-> NoError]

\* ------------------------------------------------------------------------
\* Scope filters and catalog lookup
\* ------------------------------------------------------------------------

\* strings.ReplaceAll(s, old, new) for a one-byte old
RECURSIVE ReplaceAll(_, _, _)
ReplaceAll(s, old, new) ==
    IF s = "" THEN ""
    ELSE (IF Char(s, 1) = old THEN new ELSE Char(s, 1))
         \o ReplaceAll(StrFrom(s, 2), old, new)

\* func normalizeRegion(region string) string
normalizeRegion(region) ==
    LET lower == ToLower(region)
    IN  CASE lower = "united states" -> "us"
          [] lower = "european union" -> "eu"
          [] lower = "canada" -> "ca"
          [] lower = "united kingdom" -> "uk"
          [] lower = "california" -> "us-ca"
          [] OTHER -> lower

\* one filter of ScopeFilterToCEL: field in ["v1", "v2"]
scopeFilter(field, values) ==
    field \o " in [" \o Join(Quoted(values), ", ") \o "]"

\* func ScopeFilterToCEL(dimensions gemara.Dimensions) string
ScopeFilterToCEL(dimensions) ==
    LET technologies ==
            IF Len(dimensions.Technologies) > 0
            THEN <<scopeFilter("subject.type",
                      [i \in DOMAIN dimensions.Technologies |->
                          ToLower(ReplaceAll(dimensions.Technologies[i], " ", "-"))])>>
            ELSE <<>>
        geopolitical ==
            IF Len(dimensions.Geopolitical) > 0
            THEN <<scopeFilter("subject.annotations.region",
                      [i \in DOMAIN dimensions.Geopolitical |->
                          normalizeRegion(dimensions.Geopolitical[i])])>>
            ELSE <<>>
        sensitivity ==
            IF Len(dimensions.Sensitivity) > 0
            THEN <<scopeFilter("subject.annotations.classification",
                      [i \in DOMAIN dimensions.Sensitivity |->
                          ToLower(dimensions.Sensitivity[i])])>>
            ELSE <<>>
        groups ==
            IF Len(dimensions.Groups) > 0
            THEN <<scopeFilter("subject.annotations.group", dimensions.Groups)>>
            ELSE <<>>
    IN  Join(technologies \o geopolitical \o sensitivity \o groups, " && ")

\* the controls of a catalog flattened to the requirements they hold, in the
\* order lookupRequirement visits them
RECURSIVE requirementsOf(_)
requirementsOf(Controls) ==
    IF Len(Controls) = 0 THEN <<>>
    ELSE [j \in DOMAIN Controls[1].AssessmentRequirements |->
             [Control |-> Controls[1],
              Requirement |-> Controls[1].AssessmentRequirements[j]]]
         \o requirementsOf(SubSeq(Controls, 2, Len(Controls)))

\* the family of a control: the first family of the catalog with its id
familyOf(catalog, control) ==
    LET matches == { k \in DOMAIN catalog.Families :
                        catalog.Families[k].Id = control.Family }
    IN  IF matches = {} THEN Nil
        ELSE catalog.Families[CHOOSE k \in matches : \A l \in matches : k <= l]

\* lookupRequirement that compares the id of the control
lookupRequirementByControl(catalog, requirementID) ==
    IF catalog = Nil \/ requirementID = "" THEN Nil
    ELSE LET all == requirementsOf(catalog.Controls)
             matches == { i \in DOMAIN all : all[i].Control.Id = requirementID }
         IN  IF matches = {} THEN Nil
             ELSE LET first == all[CHOOSE i \in matches : \A j \in matches : i <= j]
                  IN  [Control |-> first.Control, Requirement |-> first.Requirement,
                       Family |-> familyOf(catalog, first.Control)]

\* func lookupRequirement(catalog *gemara.Catalog, requirementID string) *CatalogEnrichment
lookupRequirement(catalog, requirementID) ==
    IF catalog = Nil \/ requirementID = "" THEN Nil
    ELSE LET all == requirementsOf(catalog.Controls)
             matches == { i \in DOMAIN all : all[i].Requirement.Id = requirementID }
         IN  IF matches = {} THEN Nil
             ELSE LET first == all[CHOOSE i \in matches : \A j \in matches : i <= j]
                  IN  [Control |-> first.Control, Requirement |-> first.Requirement,
                       Family |-> familyOf(catalog, first.Control)]

\* enrichTenetTitle that prefers the title of the control
enrichTenetTitleControlFirst(enrichment, defaultTitle) ==
    IF enrichment = Nil THEN defaultTitle
    ELSE IF enrichment.Control.Title # "" THEN enrichment.Control.Title
    ELSE IF enrichment.Requirement.Text # "" THEN enrichment.Requirement.Text
    ELSE defaultTitle

\* func enrichTenetTitle(enrichment *CatalogEnrichment, defaultTitle string) string
\* (lookupRequirement never leaves Requirement or Control nil)
enrichTenetTitle(enrichment, defaultTitle) ==
    IF enrichment = Nil THEN defaultTitle
    ELSE IF enrichment.Requirement.Text # "" THEN enrichment.Requirement.Text
    ELSE IF enrichment.Control.Title # "" THEN enrichment.Control.Title
    ELSE defaultTitle

\* func createControlReference(enrichment *CatalogEnrichment) *Control
createControlReference(enrichment) ==
    [Id |-> enrichment.Control.Id, Title |-> enrichment.Control.Title,
     Framework |-> IF enrichment.Family # Nil THEN enrichment.Family.Title ELSE "",
     Class |-> IF enrichment.Family # Nil THEN enrichment.Family.Id ELSE ""]

\* controlsMap keyed by the id of the requirement
controlsMapByRequirement(enrichments) ==
    { <<enrichments[k].Requirement.Id, createControlReference(enrichments[k])>> :
        k \in { i \in DOMAIN enrichments :
                  \A l \in 1..(i - 1) :
                      enrichments[l].Requirement.Id # enrichments[i].Requirement.Id } }

\* the map controlsMap of collectControlReferences after its first loop, as
\* the set of its <<key, value>> pairs: for each control id the reference
\* made from the first enrichment with it
controlsMap(enrichments) ==
    { <<enrichments[k].Control.Id, createControlReference(enrichments[k])>> :
        k \in { i \in DOMAIN enrichments :
                  \A l \in 1..(i - 1) :
                      enrichments[l].Control.Id # enrichments[i].Control.Id } }

\* the orders in which a range over a map with the entries S can visit them
Orders(S) ==
    { o \in [1..Cardinality(S) -> S] :
        \A i, j \in 1..Cardinality(S) : i # j => o[i] # o[j] }

\* func collectControlReferences(enrichments []*CatalogEnrichment) []*Control:
\* the slices it can return. The slice is filled by ranging over controlsMap,
\* and Go leaves the order of a range over a map open.
collectControlReferences(enrichments) ==
    { [i \in DOMAIN o |-> o[i][2]] : o \in Orders(controlsMap(enrichments)) }

\* ------------------------------------------------------------------------
\* Assessment plans to tenets
\* ------------------------------------------------------------------------

\* func isAutomatedMethod(methodType string) bool
isAutomatedMethod(methodType) ==
    methodType \in {"automated", "gate", "behavioral", "autoremediation"}

\* func getTenetName(method gemara.AcceptedMethod, evidenceReq string) string
getTenetName(method, evidenceReq) ==
    IF method.Description # "" THEN method.Description
    ELSE IF evidenceReq # ""
    THEN LET name == TrimSpace(evidenceReq)
         IN  IF Len(name) > 80 THEN SubSeq(name, 1, 77) \o "..." ELSE name
    ELSE method.Type \o " verification"

\* fmt.Sprintf("%s-%s-%d", plan.RequirementId, plan.Id, methodIndex)
tenetId(plan, methodIndex) ==
    plan.RequirementId \o "-" \o plan.Id \o "-" \o ToString(methodIndex)

\* newTenet that wraps the expression whenever scope filters are enabled
newTenetAlwaysWrapped(plan, policy, options, method, methodIndex, enrichment, g) ==
    LET filter == ScopeFilterToCEL(policy.Scope.In)
        celCode == IF options.IncludeScopeFilters
                   THEN "(" \o filter \o ") && (" \o g.cel \o ")"
                   ELSE g.cel
    IN  [Id |-> tenetId(plan, methodIndex),
         Title |-> enrichTenetTitle(enrichment,
                                    getTenetName(method, plan.EvidenceRequirements)),
         Runtime |-> DefaultRuntime,
         Predicates |-> IF Len(g.attestationTypes) > 0 THEN g.attestationTypes
                        ELSE NoPredicates,
         Code |-> celCode,
         Outputs |-> NoOutputs]

\* the tenet assessmentPlanToTenets creates for one automated method, given
\* what the generator returned for it
newTenet(plan, policy, options, method, methodIndex, enrichment, g) ==
    LET filter == ScopeFilterToCEL(policy.Scope.In)
        celCode == IF options.IncludeScopeFilters /\ filter # ""
                   THEN "(" \o filter \o ") && (" \o g.cel \o ")"
                   ELSE g.cel
    IN  [Id |-> tenetId(plan, methodIndex),
         Title |-> enrichTenetTitle(enrichment,
                                    getTenetName(method, plan.EvidenceRequirements)),
         Runtime |-> DefaultRuntime,
         Predicates |-> IF Len(g.attestationTypes) > 0 THEN g.attestationTypes
                        ELSE NoPredicates,
         Code |-> celCode,
         Outputs |-> NoOutputs]

\* the loop of assessmentPlanToTenets that numbers the tenets by the
\* position of the method in the plan
RECURSIVE methodsLoopByPosition(_, _, _, _, _, _, _, _)
methodsLoopByPosition(plan, policy, options, enrichment, i, methodIndex, tenets, enrichments) ==
    IF i > Len(plan.EvaluationMethods)
    THEN [tenets |-> tenets, enrichments |-> enrichments, err |-> NoError]
    ELSE LET method == plan.EvaluationMethods[i]
         IN  IF ~isAutomatedMethod(method.Type)
             THEN methodsLoopByPosition(plan, policy, options, enrichment, i + 1,
                                        methodIndex + 1, tenets, enrichments)
             ELSE LET g == GenerateCELFromMethod(method, plan.EvidenceRequirements,
                                                 buildCELParams(plan.Parameters),
                                                 options.CELTemplates)
                  IN  IF g.err # NoError
                      THEN [tenets |-> <<>>, enrichments |-> <<>>,
                            err |-> Errorf("error generating CEL for method", g.err)]
                      ELSE methodsLoopByPosition(plan, policy, options, enrichment, i + 1,
                               methodIndex + 1,
                               Append(tenets, newTenet(plan, policy, options, method,
                                                       methodIndex, enrichment, g)),
                               IF enrichment # Nil THEN Append(enrichments, enrichment)
                               ELSE enrichments)

\* the loop of assessmentPlanToTenets over plan.EvaluationMethods, from the
\* i-th method on: methodIndex counts the automated methods before it
RECURSIVE methodsLoop(_, _, _, _, _, _, _, _)
methodsLoop(plan, policy, options, enrichment, i, methodIndex, tenets, enrichments) ==
    IF i > Len(plan.EvaluationMethods)
    THEN [tenets |-> tenets, enrichments |-> enrichments, err |-> NoError]
    ELSE LET method == plan.EvaluationMethods[i]
         IN  IF ~isAutomatedMethod(method.Type)
             THEN methodsLoop(plan, policy, options, enrichment, i + 1,
                              methodIndex, tenets, enrichments)
             ELSE LET g == GenerateCELFromMethod(method, plan.EvidenceRequirements,
                                                 buildCELParams(plan.Parameters),
                                                 options.CELTemplates)
                  IN  IF g.err # NoError
                      THEN [tenets |-> <<>>, enrichments |-> <<>>,
                            err |-> Errorf("error generating CEL for method", g.err)]
                      ELSE methodsLoop(plan, policy, options, enrichment, i + 1,
                               methodIndex + 1,
                               Append(tenets, newTenet(plan, policy, options, method,
                                                       methodIndex, enrichment, g)),
                               IF enrichment # Nil THEN Append(enrichments, enrichment)
                               ELSE enrichments)

\* func assessmentPlanToTenets(plan, policy, options)
\*     ([]*Tenet, []*CatalogEnrichment, error)
assessmentPlanToTenets(plan, policy, options) ==
    LET enrichment == IF options.Catalog # Nil /\ plan.RequirementId # ""
                      THEN lookupRequirement(options.Catalog, plan.RequirementId)
                      ELSE Nil
    IN  methodsLoop(plan, policy, options, enrichment, 1, 0, <<>>, <<>>)

\* ------------------------------------------------------------------------
\* Source policies, catalogs and options
\* ------------------------------------------------------------------------

\* func (opts *TransformOptions) applyDefaults()
applyDefaults(opts) ==
    LET custom == IF opts.CELTemplates = Nil THEN <<>> ELSE opts.CELTemplates
    IN  [opts EXCEPT
            !.DefaultRule = IF opts.DefaultRule = "" THEN "all(tenets)"
                            ELSE opts.DefaultRule,
            !.CELTemplates =
                [n \in DOMAIN custom \cup DOMAIN DefaultCELTemplates |->
                    IF n \in DOMAIN custom THEN custom[n]
                    ELSE DefaultCELTemplates[n]]]

\* the catalog of the tests: one family, one control, one requirement
Catalog(controlTitle, requirementId, text) ==
    [Families |-> <<[Id |-> "CF-01", Title |-> "Test Control Family"]>>,
     Controls |-> <<[Id |-> "CTRL-01", Title |-> controlTitle, Family |-> "CF-01",
                     AssessmentRequirements |->
                         <<[Id |-> requirementId, Text |-> text]>>]>>]

\* no catalog, the catalog of the tests, one whose requirement has no text,
\* one with neither text nor control title, one without the requirement
Catalogs ==
    {Nil,
     Catalog("Test Control", "REQ-01", "Verify build provenance is present and valid"),
     Catalog("Test Control", "REQ-01", ""),
     Catalog("", "REQ-01", ""),
     Catalog("Test Control", "REQ-99", "Some other requirement")}

\* templates given with WithCELTemplates: none, or an override of the
\* generic template by one that does not parse
CustomTemplates ==
    {Nil,
     [n \in {"generic-field-equals"} |-> "attestation.predicate.{{.FieldPath == \"x\""]}

\* the options FromPolicy works with: the options given, defaults applied
TransformOptions(catalog, templates, scopeFilters, rule) ==
    applyDefaults([Catalog |-> catalog, CELTemplates |-> templates,
                   IncludeScopeFilters |-> scopeFilters, DefaultRule |-> rule])

\* gemara.AcceptedMethod
Method(type, description) == [Type |-> type, Description |-> description]

\* the evaluation methods of the plans: automatable and not, described and
\* not, and an automatable type in another case
Methods ==
    {Method("manual", "Manual review"), Method("automated", ""),
     Method("gate", "Verify SLSA provenance"), Method("Automated", "")}

\* the most evaluation methods of one plan
MaxMethods == 3

\* an evidence text of more than 80 bytes
LongEvidence ==
    "Vulnerability scan with no critical findings, produced by the approved scanner on every release build"

\* the evidence requirement texts of the plans, each with the parameters
\* of the plan
PlanEvidence ==
    {<<"SLSA provenance with trusted builder", <<>>>>,
     <<"SLSA provenance with trusted builder", <<BuilderIdParameter>>>>,
     <<"", <<>>>>,
     <<LongEvidence, <<>>>>,
     <<" internal spreadsheet review ", <<>>>>}

\* the options of the calls: each catalog without other options, and
\* without catalog the scope filters or the custom templates
PlanOptions ==
    { TransformOptions(catalog, Nil, FALSE, "") : catalog \in Catalogs }
    \cup { TransformOptions(Nil, Nil, TRUE, "") }
    \cup { TransformOptions(Nil, templates, FALSE, "") :
             templates \in CustomTemplates \ {Nil} }

\* gemara.AssessmentPlan
AssessmentPlan(requirementId, id, evidence, parameters, methods) ==
    [Id |-> id, RequirementId |-> requirementId,
     EvidenceRequirements |-> evidence, Parameters |-> parameters,
     EvaluationMethods |-> methods]

\* gemara.Dimensions
Dimensions(technologies, geopolitical, sensitivity, groups) ==
    [Technologies |-> technologies, Geopolitical |-> geopolitical,
     Sensitivity |-> sensitivity, Groups |-> groups]

\* the scope of the policy of the tests
TestScope == Dimensions(<<"Cloud Computing">>, <<"United States">>, <<>>, <<>>)

\* the scopes of the source policies: that of the tests, one with all four
\* lists empty, and ones with a single dimension
Scopes ==
    {TestScope,
     Dimensions(<<>>, <<>>, <<>>, <<>>),
     Dimensions(<<>>, <<>>, <<"Confidential">>, <<>>),
     Dimensions(<<>>, <<>>, <<>>, <<"admins", "release-managers">>)}

\* the gemara.Policy of the tests, with the given version and plans
SourcePolicy(version, plans) ==
    [Metadata |-> [Id |-> "policy-001", Version |-> version,
                   Description |-> "Test policy description"],
     Scope |-> [In |-> TestScope],
     Adherence |-> [AssessmentPlans |-> plans]]

\* ------------------------------------------------------------------------
\* FromPolicy
\* ------------------------------------------------------------------------

\* func ruleToAssertMode(rule string) string
ruleToAssertMode(rule) == IF Contains(rule, "any") THEN "OR" ELSE "AND"

\* a nil pointer of a ContextVal field (*string, *structpb.Value)
Null == <<>>

\* a pointer to the value v
Ref(v) == <<v>>

\* func parameterToContextVal(param gemara.Parameter) (*ContextVal, error);
\* structpb.NewValue does not fail on a string
parameterToContextVal(param) ==
    LET defaultValue == IF Len(param.AcceptedValues) > 0
                        THEN Ref(param.AcceptedValues[1]) ELSE Null
    IN  [Type |-> "string",
         Description |-> IF param.Description # "" THEN Ref(param.Description)
                         ELSE IF param.Label # "" THEN Ref(param.Label)
                         ELSE Null,
         Default |-> defaultValue,
         Value |-> defaultValue,
         Required |-> Ref(Len(param.AcceptedValues) = 0)]

\* the parameters of the plans, in the order the loops of
\* buildContextFromParameters visit them
RECURSIVE planParameters(_)
planParameters(plans) ==
    IF Len(plans) = 0 THEN <<>>
    ELSE plans[1].Parameters \o planParameters(SubSeq(plans, 2, Len(plans)))

\* the collecting loop of buildContextFromParameters in which a later
\* parameter replaces an earlier one with its id
RECURSIVE collectParametersLastWins(_, _)
collectParametersLastWins(params, parametersMap) ==
    IF Len(params) = 0 THEN parametersMap
    ELSE LET param == params[1]
         IN  collectParametersLastWins(SubSeq(params, 2, Len(params)),
                 { e \in parametersMap : e[1] # param.Id }
                     \cup {<<param.Id, param>>})

\* the collecting loop of buildContextFromParameters: parametersMap, a map as
\* the set of its <<key, value>> pairs, after the parameters params
RECURSIVE collectParameters(_, _)
collectParameters(params, parametersMap) ==
    IF Len(params) = 0 THEN parametersMap
    ELSE LET param == params[1]
             exists == \E e \in parametersMap : e[1] = param.Id
         IN  collectParameters(SubSeq(params, 2, Len(params)),
                 IF ~exists THEN parametersMap \cup {<<param.Id, param>>}
                 ELSE parametersMap)

\* func buildContextFromParameters(policy *gemara.Policy, ampelPolicy *Policy) error:
\* the map it leaves in ampelPolicy.Context, empty for the nil map
buildContextFromParameters(policy) ==
    LET parametersMap ==
            collectParameters(planParameters(policy.Adherence.AssessmentPlans), {})
    IN  { <<e[1], parameterToContextVal(e[2])>> : e \in parametersMap }

RECURSIVE plansLoop(_, _, _, _, _)

\* one pass of the loop of FromPolicy over policy.Adherence.AssessmentPlans,
\* r being what assessmentPlanToTenets returned for the i-th plan
plansStep(policy, options, i, tenets, allEnrichments, r) ==
    IF r.err # NoError
    THEN [tenets |-> <<>>, allEnrichments |-> <<>>,
          err |-> Errorf("error converting assessment plan "
                             \o policy.Adherence.AssessmentPlans[i].Id, r.err)]
    ELSE plansLoop(policy, options, i + 1, tenets \o r.tenets,
                   allEnrichments \o r.enrichments)

\* the loop of FromPolicy over policy.Adherence.AssessmentPlans, from the
\* i-th plan on
plansLoop(policy, options, i, tenets, allEnrichments) ==
    IF i > Len(policy.Adherence.AssessmentPlans)
    THEN [tenets |-> tenets, allEnrichments |-> allEnrichments, err |-> NoError]
    ELSE plansStep(policy, options, i, tenets, allEnrichments,
                   assessmentPlanToTenets(policy.Adherence.AssessmentPlans[i],
                                          policy, options))

\* the end of FromPolicy: the generated policy is returned if it is valid
validated(ampelPolicy, err) ==
    IF err # NoError
    THEN [policy |-> Nil, err |-> Errorf("generated policy validation failed", err)]
    ELSE [policy |-> ampelPolicy, err |-> NoError]

\* the policy FromPolicy has built after the loop over the plans, r being
\* what the loop returned and controls what collectControlReferences returned
ampelPolicyOf(policy, options, r, controls) ==
    [Id |-> policy.Metadata.Id,
     Meta |-> [Runtime |-> DefaultRuntime,
               Description |-> policy.Metadata.Description,
               AssertMode |-> ruleToAssertMode(options.DefaultRule),
               Controls |-> controls,
               Version |-> buildMetadata(policy.Metadata.Version),
               Enforce |-> ""],
     Context |-> buildContextFromParameters(policy),
     Tenets |-> r.tenets]

\* FromPolicy from the loop over the plans on: what it can return
afterPlans(policy, options, r) ==
    IF r.err # NoError THEN {[policy |-> Nil, err |-> r.err]}
    ELSE { validated(ampelPolicyOf(policy, options, r, controls),
                     Validate(ampelPolicyOf(policy, options, r, controls))) :
             controls \in collectControlReferences(r.allEnrichments) }

\* func FromPolicy(policy *gemara.Policy, opts ...TransformOption) (*Policy, error),
\* options being the options after applyDefaults: the results the call can
\* return, one for each order of the control references
FromPolicy(policy, options) ==
    afterPlans(policy, options, plansLoop(policy, options, 1, <<>>, <<>>))

\* the most assessment plans of one source policy
MaxPlans == 2

\* the assessment plans of the source policies: the plan of the tests; one
\* with another requirement and plan id that join to the same text, and the
\* parameter of the first without accepted values; one with two parameters
\* and a method that is not automated; one without automated method; one
\* that gives the parameter of the first other accepted values
Plans ==
    {AssessmentPlan("REQ-01", "plan-01", "SLSA provenance with trusted builder",
                    <<BuilderIdParameter>>, <<Method("automated", "")>>),
     AssessmentPlan("REQ", "01-plan-01", "SLSA provenance with trusted builder",
                    <<Parameter("builder-id", "Builder", "", <<>>)>>,
                    <<Method("gate", "Verify SLSA provenance")>>),
     AssessmentPlan("REQ-02", "plan-02", LongEvidence,
                    <<ScannerParameter, RuntimeParameter>>,
                    <<Method("manual", "Manual review"), Method("automated", "")>>),
     AssessmentPlan("REQ-03", "plan-03", "", <<>>,
                    <<Method("manual", "Manual review")>>),
     AssessmentPlan("REQ-04", "plan-04", " internal spreadsheet review ",
                    <<Parameter("runtime-value", "", "", <<"at-build">>),
                      Parameter("builder-id", "", "Another builder",
                                <<"https://other.example/builder", "https://third.example/builder">>)>>,
                    <<Method("automated", ""), Method("gate", "Verify SLSA provenance")>>)}

\* a catalog of three controls: the first with the requirements of two
\* plans, the third with the requirement of the plan without automated method
LargeCatalog ==
    [Families |-> <<[Id |-> "CF-01", Title |-> "Test Control Family"]>>,
     Controls |->
        <<[Id |-> "CTRL-01", Title |-> "Test Control", Family |-> "CF-01",
           AssessmentRequirements |->
               <<[Id |-> "REQ-01", Text |-> "Verify build provenance is present and valid"],
                 [Id |-> "REQ-04", Text |-> ""]>>],
          [Id |-> "CTRL-02", Title |-> "Scanning", Family |-> "CF-02",
           AssessmentRequirements |-> <<[Id |-> "REQ-02", Text |-> ""]>>],
          [Id |-> "CTRL-03", Title |-> "Review", Family |-> "CF-01",
           AssessmentRequirements |-> <<[Id |-> "REQ-03", Text |-> "Review"]>>]>>]

\* a template override that leaves the expression empty
EmptyTemplate == [n \in {"generic-field-equals"} |-> ""]

\* the options of the calls of FromPolicy
FromPolicyOptions ==
    PlanOptions
    \cup { TransformOptions(Nil, Nil, FALSE, "any(tenets)"),
           TransformOptions(Nil, EmptyTemplate, FALSE, ""),
           TransformOptions(LargeCatalog, Nil, FALSE, "") }

\* ------------------------------------------------------------------------
\* Policy-level attestation-type inference
\* ------------------------------------------------------------------------

\* strings.Fields(s): the parts of s between runs of white space
RECURSIVE Fields(_)
Fields(s) ==
    IF s = "" THEN <<>>
    ELSE IF Char(s, 1) \in WhiteSpace THEN Fields(StrFrom(s, 2))
    ELSE LET spaces == { i \in 1..Len(s) : Char(s, i) \in WhiteSpace }
         IN  IF spaces = {} THEN <<s>>
             ELSE LET i == CHOOSE x \in spaces : \A y \in spaces : x <= y
                  IN  <<SubSeq(s, 1, i - 1)>> \o Fields(StrFrom(s, i + 1))

\* func isStandardAttestationType(url string) bool
isStandardAttestationType(url) ==
    \E stdType \in {"https://slsa.dev/provenance/v1",
                    "https://in-toto.io/Statement/v0.1",
                    "https://in-toto.io/Statement/v1"} :
        Contains(url, stdType)

\* func analyzeEvidenceRequirement(evidenceReq string, inf *AttestationTypeInference):
\* the inference it leaves in *inf
analyzeEvidenceRequirement(evidenceReq, inf) ==
    LET lowerReq == ToLower(evidenceReq)
        custom(part) == /\ Len(part) >= 8 /\ SubSeq(part, 1, 8) = "https://"
                        /\ ~isStandardAttestationType(part)
    IN  [RequiresProvenance |->
             \/ inf.RequiresProvenance
             \/ \E keyword \in {"slsa", "provenance", "builder", "build provenance",
                                "build attestation"} : Contains(lowerReq, keyword),
         RequiresVulnScan |->
             \/ inf.RequiresVulnScan
             \/ \E keyword \in {"vulnerabilit", "cve", "security scan", "vuln scan",
                                "vulnerability scan"} : Contains(lowerReq, keyword),
         CustomTypes |->
             IF Contains(evidenceReq, "https://")
             THEN inf.CustomTypes \o SelectSeq(Fields(evidenceReq), custom)
             ELSE inf.CustomTypes]

\* the loops of InferAttestationTypes: the texts analysed one after the
\* other, empty ones skipped
RECURSIVE analyzeTexts(_, _)
analyzeTexts(texts, inf) ==
    IF Len(texts) = 0 THEN inf
    ELSE analyzeTexts(SubSeq(texts, 2, Len(texts)),
                      IF texts[1] # "" THEN analyzeEvidenceRequirement(texts[1], inf)
                      ELSE inf)

\* func InferAttestationTypes(policy *gemara.Policy) AttestationTypeInference
InferAttestationTypes(policy) ==
    analyzeTexts(
        [i \in DOMAIN policy.Adherence.AssessmentPlans |->
            policy.Adherence.AssessmentPlans[i].EvidenceRequirements]
        \o [i \in DOMAIN policy.Adherence.EvaluationMethods |->
               policy.Adherence.EvaluationMethods[i].Description],
        [RequiresProvenance |-> FALSE, RequiresVulnScan |-> FALSE,
         CustomTypes |-> <<>>])

\* evidence texts and method descriptions with and without predicate-type
\* URLs: none, a custom one, the same twice, a standard and another custom
\* one, and a standard one only
UrlTexts ==
    {"", "SLSA provenance with trusted builder",
     "attested as https://example.com/attestation/v1",
     "https://example.com/attestation/v1 or  https://example.com/attestation/v1",
     "https://slsa.dev/provenance/v1 and https://example.org/scan/v2",
     "CVE scan, see https://in-toto.io/Statement/v1"}

\* ------------------------------------------------------------------------
\* State
\* ------------------------------------------------------------------------

VARIABLES
    heap,       \* the tenet objects, by address
    existing,   \* the *Policy passed as existing
    generated,  \* the *Policy passed as generated
    before,     \* the values of existing and generated when the call began
    merged,     \* the *Policy MergePolicy returned (Nil: none)
    stats,      \* the MergeStats it returned
    err,        \* the error it returned
    pc,         \* "call": MergePolicy not yet called; "done": it returned
    file,       \* what the output path of the workspace holds
    run,        \* what the last run of the command reported
    lostEdits,  \* history: the ids whose hand-written expression a run removed,
                \* until a run finds the id in the file again
    args,       \* the arguments of a call of one function of the mapping (Nil: none)
    ret         \* what that call returned (Nil: not yet called)

mergeVars == <<heap, existing, generated, before, merged, stats, err, pc>>

workspaceVars == <<file, run, lostEdits>>

callVars == <<args, ret>>

vars == <<heap, existing, generated, before, merged, stats, err, pc, file, run,
          lostEdits, args, ret>>

\* ------------------------------------------------------------------------
\* One call of MergePolicy on arbitrary policies
\* ------------------------------------------------------------------------

InitMerge ==
    \E ev \in ExistingPolicies, gv \in GeneratedPolicies :
        /\ heap = Layout(ev, gv).heap
        /\ existing = Layout(ev, gv).existing
        /\ generated = Layout(ev, gv).generated
        /\ before = [existing |-> ev, generated |-> gv]
        /\ merged = Nil
        /\ stats = MergeStats
        /\ err = NoError
        /\ pc = "call"
        /\ file = Absent
        /\ run = NoRun
        /\ lostEdits = {}
        /\ args = Nil
        /\ ret = Nil

CallMergePolicy ==
    /\ pc = "call"
    /\ LET r == MergePolicy(heap, existing, generated)
       IN  /\ heap' = r.heap
           /\ merged' = r.merged
           /\ stats' = r.stats
           /\ err' = r.err
    /\ pc' = "done"
    /\ UNCHANGED <<existing, generated, before, workspaceVars, args, ret>>

\* the next regeneration from the same source: MergePolicy on the policy
\* the first call returned and the same generated policy
CallMergePolicyAgain ==
    /\ pc = "done"
    /\ merged # Nil
    /\ LET r == MergePolicy(heap, merged, generated)
       IN  /\ heap' = r.heap
           /\ ret' = [merged |-> Deref(r.heap, r.merged), stats |-> r.stats,
                      err |-> r.err]
    /\ pc' = "again"
    /\ UNCHANGED <<existing, generated, before, merged, stats, err, workspaceVars,
                   args>>

NextMerge == CallMergePolicy \/ CallMergePolicyAgain

SpecMerge == InitMerge /\ [][NextMerge]_vars

\* ------------------------------------------------------------------------
\* Runs of the command in workspace mode on one output path, and edits of
\* the file between the runs
\* ------------------------------------------------------------------------

Init ==
    /\ heap = <<>>
    /\ existing = Nil
    /\ generated = Nil
    /\ before = [existing |-> Nil, generated |-> Nil]
    /\ merged = Nil
    /\ stats = MergeStats
    /\ err = NoError
    /\ pc = "idle"
    /\ file = Absent
    /\ run = NoRun
    /\ lostEdits = {}
    /\ args = Nil
    /\ ret = Nil

\* a run of a command that remembers the removed hand edits and puts the
\* hand-written expression back when their id is generated again
RunWorkspaceModeRestoresEdits ==
    /\ \E ampelPolicy \in FromPolicyResults, forceOverwrite \in BOOLEAN,
          readFails \in BOOLEAN, writeFails \in BOOLEAN :
          LET r == handleWorkspaceMode(file, ampelPolicy, forceOverwrite,
                                       readFails, writeFails)
              back == lostEdits \ TenetIdsOf(file)
              restored ==
                  IF r.file.kind = "json" /\ "tenets" \in DOMAIN r.file.doc
                  THEN JSONFile([r.file.doc EXCEPT !["tenets"] =
                           [i \in DOMAIN @ |->
                               IF @[i]["id"] \in back
                               THEN [@[i] EXCEPT !["code"] = "MANUALLY EDITED"]
                               ELSE @[i]]])
                  ELSE r.file
          IN  /\ file' = restored
              /\ run' = r.run
              /\ lostEdits' = (lostEdits \ TenetIdsOf(file))
                                  \cup (HandEdited(file) \ TenetIdsOf(restored))
    /\ UNCHANGED <<mergeVars, callVars>>

\* one run of the command: the policy generated from the source, the
\* --force-overwrite flag, and whether reading or writing the path fails;
\* lostEdits records the hand edits that the run removed from the file and
\* forgets those whose id the run found in the file
RunWorkspaceMode ==
    /\ \E ampelPolicy \in FromPolicyResults, forceOverwrite \in BOOLEAN,
          readFails \in BOOLEAN, writeFails \in BOOLEAN :
          LET r == handleWorkspaceMode(file, ampelPolicy, forceOverwrite,
                                       readFails, writeFails)
          IN  /\ file' = r.file
              /\ run' = r.run
              /\ lostEdits' = (lostEdits \ TenetIdsOf(file))
                                  \cup (HandEdited(file) \ TenetIdsOf(r.file))
    /\ UNCHANGED <<mergeVars, callVars>>

\* the user replaces the expression of one tenet of the stored policy
HandEdit ==
    /\ file.kind = "json"
    /\ "tenets" \in DOMAIN file.doc
    /\ \E i \in DOMAIN file.doc["tenets"], code \in ManualCodes :
          /\ file.doc["tenets"][i]["code"] # code
          /\ file' = JSONFile([file.doc EXCEPT !["tenets"][i]["code"] = code])
    /\ run' = ByHand("edit")
    /\ UNCHANGED <<mergeVars, callVars, lostEdits>>

\* the file is damaged: its content is no longer JSON
CorruptFile ==
    /\ file.kind = "json"
    /\ file' = Garbage
    /\ run' = ByHand("corrupt")
    /\ UNCHANGED <<mergeVars, callVars, lostEdits>>

\* the file is deleted
RemoveFile ==
    /\ file.kind # "absent"
    /\ file' = Absent
    /\ run' = ByHand("remove")
    /\ UNCHANGED <<mergeVars, callVars, lostEdits>>

Next ==
    \/ RunWorkspaceMode
    \/ HandEdit
    \/ CorruptFile
    \/ RemoveFile

Spec == Init /\ [][Next]_vars

\* ------------------------------------------------------------------------
\* Calls of the functions of the mapping on arbitrary arguments
\* ------------------------------------------------------------------------

\* no MergePolicy call and no run of the command is under way
MergeIdle ==
    /\ heap = <<>>
    /\ existing = Nil
    /\ generated = Nil
    /\ before = [existing |-> Nil, generated |-> Nil]
    /\ merged = Nil
    /\ stats = MergeStats
    /\ err = NoError
    /\ pc = "idle"
    /\ file = Absent
    /\ run = NoRun
    /\ lostEdits = {}

\* buildMetadata on the version string of any source policy
InitVersion ==
    /\ MergeIdle
    /\ \E v \in Versions : args = [fn |-> "buildMetadata", Version |-> v]
    /\ ret = Nil

CallBuildMetadata ==
    /\ ret = Nil
    /\ ret' = [Version |-> buildMetadata(args.Version)]
    /\ UNCHANGED <<mergeVars, workspaceVars, args>>

NextVersion == CallBuildMetadata

SpecVersion == InitVersion /\ [][NextVersion]_vars

\* GenerateCELFromMethod on any method type, evidence text, parameter map
\* and template set
InitGenerate ==
    /\ MergeIdle
    /\ \E type \in {"automated", "gate", "manual"},
          evidenceReq \in EvidenceTexts,
          parameters \in {<<>>, <<BuilderIdParameter>>, <<ScannerParameter>>},
          templates \in TemplateSets :
          args = [fn |-> "GenerateCELFromMethod",
                  method |-> [Type |-> type, Description |-> ""],
                  evidenceReq |-> evidenceReq,
                  params |-> buildCELParams(parameters),
                  templates |-> templates]
    /\ ret = Nil

CallGenerateCELFromMethod ==
    /\ ret = Nil
    /\ ret' = [templateName |-> templateNameOf(args.method, args.evidenceReq),
               result |-> GenerateCELFromMethod(args.method, args.evidenceReq,
                                                args.params, args.templates)]
    /\ UNCHANGED <<mergeVars, workspaceVars, args>>

NextGenerate == CallGenerateCELFromMethod

SpecGenerate == InitGenerate /\ [][NextGenerate]_vars

\* assessmentPlanToTenets on any plan of the policy
InitPlan ==
    /\ MergeIdle
    /\ \E evidence \in PlanEvidence,
          methods \in SeqUpTo(Methods, MaxMethods),
          options \in PlanOptions :
          \E scope \in IF options.IncludeScopeFilters THEN Scopes ELSE {TestScope} :
          LET plan == AssessmentPlan("REQ-01", "plan-01", evidence[1], evidence[2],
                                     methods)
          IN  args = [fn |-> "assessmentPlanToTenets",
                      plan |-> plan,
                      policy |-> [SourcePolicy("1.0.0", <<plan>>)
                                     EXCEPT !.Scope.In = scope],
                      options |-> options]
    /\ ret = Nil

CallAssessmentPlanToTenets ==
    /\ ret = Nil
    /\ ret' = assessmentPlanToTenets(args.plan, args.policy, args.options)
    /\ UNCHANGED <<mergeVars, workspaceVars, args>>

NextPlan == CallAssessmentPlanToTenets

SpecPlan == InitPlan /\ [][NextPlan]_vars

\* ------------------------------------------------------------------------
\* One call of FromPolicy
\* ------------------------------------------------------------------------

\* the arguments of a call: a source policy of at most MaxPlans plans and
\* the options
InitFromPolicy ==
    /\ MergeIdle
    /\ ret = Nil
    /\ \E plans \in SeqUpTo(Plans, MaxPlans), options \in FromPolicyOptions :
          args = [fn |-> "FromPolicy", policy |-> SourcePolicy("1.0.0", plans),
                  options |-> options]

\* FromPolicy(policy, opts...) returns; the caller may call it again with
\* the same arguments
CallFromPolicy ==
    /\ args.fn = "FromPolicy"
    /\ ret' \in FromPolicy(args.policy, args.options)
    /\ UNCHANGED <<mergeVars, workspaceVars, args>>

NextFromPolicy == CallFromPolicy

SpecFromPolicy == InitFromPolicy /\ [][NextFromPolicy]_vars

\* ------------------------------------------------------------------------
\* One call of InferAttestationType
\* ------------------------------------------------------------------------

\* InferAttestationType on any text
InitInfer ==
    /\ MergeIdle
    /\ \E evidenceReq \in InferenceTexts :
          args = [fn |-> "InferAttestationType", evidenceReq |-> evidenceReq]
    /\ ret = Nil

CallInferAttestationType ==
    /\ ret = Nil
    /\ ret' = [type |-> InferAttestationType(args.evidenceReq)]
    /\ UNCHANGED <<mergeVars, workspaceVars, args>>

NextInfer == CallInferAttestationType

SpecInfer == InitInfer /\ [][NextInfer]_vars

\* ------------------------------------------------------------------------
\* One call of InferAttestationTypes
\* ------------------------------------------------------------------------

\* InferAttestationTypes on a policy of at most MaxPlans plans and at most
\* one top-level evaluation method
InitInferTypes ==
    /\ MergeIdle
    /\ \E evidence \in SeqUpTo(UrlTexts, MaxPlans),
          descriptions \in SeqUpTo(UrlTexts, 1) :
          args = [fn |-> "InferAttestationTypes",
                  policy |->
                      [Adherence |->
                          [AssessmentPlans |->
                               [i \in DOMAIN evidence |->
                                   AssessmentPlan("REQ-01", "plan-01", evidence[i],
                                                  <<>>, <<>>)],
                           EvaluationMethods |->
                               [i \in DOMAIN descriptions |->
                                   Method("automated", descriptions[i])]]]]
    /\ ret = Nil

CallInferAttestationTypes ==
    /\ ret = Nil
    /\ ret' = InferAttestationTypes(args.policy)
    /\ UNCHANGED <<mergeVars, workspaceVars, args>>

NextInferTypes == CallInferAttestationTypes

SpecInferTypes == InitInferTypes /\ [][NextInferTypes]_vars

\* ------------------------------------------------------------------------
\* One call of FromPolicy with WithCELTemplates: the template maps by
\* reference
\* ------------------------------------------------------------------------

\* the reference to no map: a nil map[string]string
NilMap == "nil"

\* the maps a call can reach, by the name of the variable that holds them:
\* the caller's map (absent when the caller passes a nil map) and the
\* package-level table DefaultCELTemplates
TemplateMaps(templates) ==
    IF templates = Nil
    THEN [m \in {"DefaultCELTemplates"} |-> DefaultCELTemplates]
    ELSE [m \in {"templates", "DefaultCELTemplates"} |->
            IF m = "templates" THEN templates ELSE DefaultCELTemplates]

\* func WithCELTemplates(templates map[string]string) TransformOption: the
\* option stores the caller's map itself, not a copy; templates is the name
\* of the map, NilMap for a nil map
WithCELTemplates(opts, templates) == [opts EXCEPT !.CELTemplates = templates]

\* func (opts *TransformOptions) applyDefaults() on maps held by reference:
\* a nil map is replaced by a new one (make), and the built-in entries whose
\* names the map lacks are written into the map opts.CELTemplates names
applyDefaultsInPlace(maps, opts) ==
    LET m == IF opts.CELTemplates = NilMap THEN "make" ELSE opts.CELTemplates
        held == IF opts.CELTemplates = NilMap THEN Nil ELSE maps[m]
        filled == applyDefaults([opts EXCEPT !.CELTemplates = held])
    IN  [maps |-> [n \in DOMAIN maps \cup {m} |->
                      IF n = m THEN filled.CELTemplates ELSE maps[n]],
         opts |-> [filled EXCEPT !.CELTemplates = m]]

\* the names of the entries of the caller's maps: a new name and the names
\* of two built-in templates
CallerTemplateNames ==
    {"custom-check", "generic-field-equals", "slsa-provenance-builder"}

\* the texts of the entries of the caller's maps
CallerTemplateTexts ==
    {"true", "attestation.predicate.field == \"{{.ExpectedValue}}\""}

\* the maps a caller passes to WithCELTemplates: nil, empty, or any entries
\* under the names above
CallerTemplates ==
    {Nil} \cup UNION { [names -> CallerTemplateTexts] :
                         names \in SUBSET CallerTemplateNames }

\* a call FromPolicy(policy, WithCELTemplates(templates), WithDefaultRule(rule))
InitTemplates ==
    /\ MergeIdle
    /\ ret = Nil
    /\ \E plan \in Plans, templates \in CallerTemplates,
          rule \in {"", "any(tenets)"} :
          args = [fn |-> "FromPolicy with templates",
                  policy |-> SourcePolicy("1.0.0", <<plan>>),
                  templates |-> templates, rule |-> rule]

\* FromPolicy: the options are applied to an empty TransformOptions, then
\* applyDefaults, then the policy is generated with the options' templates;
\* ret holds the policy and error returned, the maps as the call leaves them
\* and the templates the generation used
CallFromPolicyWithTemplates ==
    /\ args.fn = "FromPolicy with templates"
    /\ ret = Nil
    /\ LET empty == [Catalog |-> Nil, CELTemplates |-> NilMap,
                     IncludeScopeFilters |-> FALSE, DefaultRule |-> ""]
           given == [WithCELTemplates(empty,
                                      IF args.templates = Nil THEN NilMap
                                      ELSE "templates")
                        EXCEPT !.DefaultRule = args.rule]
           d == applyDefaultsInPlace(TemplateMaps(args.templates), given)
           options == [d.opts EXCEPT !.CELTemplates = d.maps[d.opts.CELTemplates]]
       IN  \E r \in FromPolicy(args.policy, options) :
              ret' = [policy |-> r.policy, err |-> r.err, maps |-> d.maps,
                      CELTemplates |-> options.CELTemplates]
    /\ UNCHANGED <<mergeVars, workspaceVars, args>>

NextTemplates == CallFromPolicyWithTemplates

SpecTemplates == InitTemplates /\ [][NextTemplates]_vars

\* ------------------------------------------------------------------------
\* Vocabulary of the properties of one MergePolicy call
\* ------------------------------------------------------------------------

\* the call has returned
Returned == pc = "done"

\* the call has returned a merged policy
Succeeded == pc = "done" /\ merged # Nil

\* the inputs as they were when the call began, and the result
E == before.existing
G == before.generated
M == Deref(heap, merged)

\* the elements of a sequence
Range(s) == { s[i] : i \in DOMAIN s }

\* the tenet ids of a policy value
IdsOf(p) == { t.Id : t \in Range(p.Tenets) }

\* ------------------------------------------------------------------------
\* C1..C7, C10: properties of MergePolicy (specification SpecMerge)
\* ------------------------------------------------------------------------

\* the id identifies one tenet of the policy value p
IdentifiesOne(p, id) ==
    Cardinality({ i \in DOMAIN p.Tenets : p.Tenets[i].Id = id }) = 1

C2_OtherFieldsFromGenerated ==
    Succeeded =>
        \A i \in DOMAIN G.Tenets :
            G.Tenets[i].Id \in IdsOf(E) =>
                /\ i \in DOMAIN M.Tenets
                /\ M.Tenets[i].Title = G.Tenets[i].Title
                /\ M.Tenets[i].Runtime = G.Tenets[i].Runtime
                /\ M.Tenets[i].Predicates = G.Tenets[i].Predicates

\* C3: the merged tenet list has the length of the generated one and its
\* i-th tenet has the id of the i-th generated tenet, so the merged id set is
\* the generated id set.
C3_MergedIdsAreGeneratedIds ==
    Succeeded =>
        /\ Len(M.Tenets) = Len(G.Tenets)
        /\ \A i \in DOMAIN G.Tenets : M.Tenets[i].Id = G.Tenets[i].Id
        /\ IdsOf(M) = IdsOf(G)

\* C3 witness: a successful merge of two generated tenets, one of them
\* preserved and one added, with an existing tenet that is dropped
C3_Witness ==
    /\ Succeeded
    /\ Len(G.Tenets) = 2
    /\ stats.TenetsPreserved = 1
    /\ stats.TenetsAdded = 1
    /\ stats.TenetsRemoved = 1
    /\ IdsOf(E) \ IdsOf(G) # {}
    /\ IdsOf(M) = IdsOf(G)

\* C4: with A the existing id set and B the generated id set, the returned
\* statistics are TenetsAdded = |B \ A|, TenetsRemoved = |A \ B| and
\* TenetsPreserved = |A intersect B|.
C4_StatsAreSetDifferences ==
    Returned =>
        /\ stats.TenetsAdded = Cardinality(IdsOf(G) \ IdsOf(E))
        /\ stats.TenetsRemoved = Cardinality(IdsOf(E) \ IdsOf(G))
        /\ stats.TenetsPreserved = Cardinality(IdsOf(E) \cap IdsOf(G))

\* C5: merging a valid policy X with an identical copy of itself returns a
\* policy equal to X, with every tenet preserved, none added, none removed.
C5_MergeWithItself ==
    (Returned /\ E = G /\ Validate(E) = NoError) =>
        /\ merged # Nil
        /\ M = E
        /\ stats.TenetsPreserved = Len(E.Tenets)
        /\ stats.TenetsAdded = 0
        /\ stats.TenetsRemoved = 0

\* C6: the merged policy's identifier, metadata block and context table are
\* those of the generated policy.
C6_HeadFromGenerated ==
    Succeeded =>
        /\ M.Id = G.Id
        /\ M.Meta = G.Meta
        /\ M.Context = G.Context

\* C6 witness: a successful merge where the existing policy differs from the
\* generated one in identifier, metadata and context
C6_Witness ==
    /\ Succeeded
    /\ E.Id # G.Id
    /\ E.Meta # G.Meta
    /\ E.Context # G.Context
    /\ M.Meta = G.Meta

\* the merged policy fails validation: the generated policy has no tenet, or
\* a generated tenet that no existing tenet matches has no expression, or the
\* existing tenets that match a generated tenet have no expression
MergedIsInvalid ==
    \/ Len(G.Tenets) = 0
    \/ \E g \in Range(G.Tenets) : g.Id \notin IdsOf(E) /\ g.Code = ""
    \/ \E g \in Range(G.Tenets) :
          /\ g.Id \in IdsOf(E)
          /\ \A e \in Range(E.Tenets) : e.Id = g.Id => e.Code = ""

C10_InputsUnchanged ==
    Returned =>
        /\ Deref(heap, existing) = before.existing
        /\ Deref(heap, generated) = before.generated

\* C10 witness: a failing call that had already merged a tenet whose
\* generated title differs from the existing one
C10_Witness ==
    /\ Returned
    /\ err # NoError
    /\ stats.TenetsPreserved > 0
    /\ \E e \in Range(E.Tenets), g \in Range(G.Tenets) :
          e.Id = g.Id /\ e.Title # g.Title
    /\ Deref(heap, existing) = before.existing

\* ------------------------------------------------------------------------
\* C8, C9: properties of the workspace mode (specification Spec)
\* ------------------------------------------------------------------------

\* the policy the file holds, Nil when there is none to parse
Stored == Unmarshal(file).policy
StoredNext == Unmarshal(file').policy

\* C8: a run in workspace mode that ends in an error because the existing
\* file cannot be read or parsed, or because the merge fails validation,
\* leaves the output path exactly as it was.
C8_ErrorLeavesFile ==
    [][(run'.step = "run" /\ run'.err \in {"read", "parse", "merge"})
          => file' = file]_vars

\* C8 witness: a run has ended in a merge error and the path holds the
\* policy with the emptied expression that made the merge fail
C8_Witness ==
    /\ run.step = "run"
    /\ run.err = "merge"
    /\ run.stats.TenetsPreserved > 0
    /\ Stored # Nil
    /\ \E t \in Range(Stored.Tenets) : t.Code = ""

AddedIds == run'.generatedIds \ TenetIdsOf(file)

\* C28: no tombstone is kept for removed tenets: when a run merges into a
\* file that lacks an id whose hand-written expression an earlier run
\* removed, and the source generates that id again, the file afterwards
\* holds the tenet with the freshly generated expression and predicate
\* filter, never the hand-written one, and the tenet is counted in
\* TenetsAdded (TenetsAdded is the number of stored tenets under added ids).
C28_NoTombstone ==
    [][(run'.step = "run" /\ run'.outcome = "updated") =>
          \A id \in lostEdits \cap AddedIds :
              /\ StoredNext # Nil
              /\ \E u \in Range(StoredNext.Tenets) : u.Id = id
              /\ \A u \in Range(StoredNext.Tenets) :
                    u.Id = id => /\ u.Code \notin ManualCodes
                                 /\ u.Predicates # NoPredicates
                                 /\ u.Outputs = NoOutputs
              /\ run'.stats.TenetsAdded =
                    Cardinality({ i \in DOMAIN StoredNext.Tenets :
                                    StoredNext.Tenets[i].Id \in AddedIds })]_vars

\* C28 witness: a run has merged into the file and added a tenet under an
\* id whose hand-written expression an earlier run had removed; the tenet
\* now carries a generated expression
C28_Witness ==
    /\ run.step = "run"
    /\ run.outcome = "updated"
    /\ run.stats.TenetsAdded > 0
    /\ run.stats.TenetsPreserved = 0
    /\ Stored # Nil
    /\ \E t \in Range(Stored.Tenets) :
          /\ t.Id \in lostEdits \cap run.generatedIds
          /\ t.Code \notin ManualCodes


\* ------------------------------------------------------------------------
\* C20: the major version (specification SpecVersion)
\* ------------------------------------------------------------------------

\* the text of v before its first dot, the whole of v when it has none
FirstSegment(v) ==
    CHOOSE p \in { SubSeq(v, 1, k) : k \in 0..Len(v) } :
        /\ ~Contains(p, ".")
        /\ p = v \/ Char(v, Len(p) + 1) = "."

\* p is a decimal integer: an optional sign and one or more digits
IsInteger(p) ==
    \E k \in {0, 1} :
        /\ k = 1 => Len(p) > 0 /\ Char(p, 1) \in {"+", "-"}
        /\ Len(p) > k
        /\ \A i \in (k + 1)..Len(p) : Contains(Digits, Char(p, i))

\* the number the digits of d denote
RECURSIVE NumberOf(_)
NumberOf(d) ==
    IF d = "" THEN 0
    ELSE 10 * NumberOf(SubSeq(d, 1, Len(d) - 1))
         + (CHOOSE n \in 0..9 : Char(Digits, n + 1) = Char(d, Len(d)))

\* the integer p denotes
IntegerOf(p) ==
    IF Char(p, 1) = "-" THEN 0 - NumberOf(StrFrom(p, 2))
    ELSE IF Char(p, 1) = "+" THEN NumberOf(StrFrom(p, 2))
    ELSE NumberOf(p)

\* C20: the major version is the integer the first dot-delimited segment of
\* the version string denotes ("2.7.3" gives 2), and 0 when that segment is
\* empty or not an integer ("" and "vX" give 0); what follows the first dot
\* has no influence.
C20_MajorVersion ==
    (args.fn = "buildMetadata" /\ ret # Nil) =>
        /\ ret.Version = IF IsInteger(FirstSegment(args.Version))
                         THEN IntegerOf(FirstSegment(args.Version)) ELSE 0
        /\ args.Version = "2.7.3" => ret.Version = 2
        /\ args.Version \in {"", "vX"} => ret.Version = 0

\* C20 witness: the version "2.7.3" has been mapped to 2
C20_Witness ==
    /\ args.fn = "buildMetadata"
    /\ ret # Nil
    /\ args.Version = "2.7.3"
    /\ ret.Version = 2


\* ------------------------------------------------------------------------
\* C15, C16, C18: the expression generator (specification SpecGenerate)
\* ------------------------------------------------------------------------

\* GenerateCELFromMethod has returned
Generated == args.fn = "GenerateCELFromMethod" /\ ret # Nil

\* the template the ordered rules of the claim select
RuleTemplate(evidenceReq, type) ==
    LET text == ToLower(evidenceReq)
        provenance == Contains(text, "slsa") \/ Contains(text, "provenance")
        vulnerability == Contains(text, "vulnerabilit") \/ Contains(text, "cve")
    IN  CASE provenance /\ Contains(text, "builder") -> "slsa-provenance-builder"
          [] provenance /\ ~Contains(text, "builder") /\ Contains(text, "material") ->
                "slsa-provenance-materials"
          [] provenance /\ ~Contains(text, "builder") /\ ~Contains(text, "material")
             /\ (Contains(text, "buildtype") \/ Contains(text, "build type")) ->
                "slsa-provenance-buildtype"
          [] OTHER ->
                IF vulnerability /\ Contains(text, "critical")
                THEN "vulnerability-scan-no-critical"
                ELSE IF vulnerability /\ Contains(text, "threshold")
                THEN "vulnerability-scan-threshold"
                ELSE IF vulnerability /\ Contains(text, "scanner")
                THEN "vulnerability-scanner"
                ELSE IF type \in DOMAIN MethodTypeToCELTemplate
                THEN MethodTypeToCELTemplate[type]
                ELSE ""

\* C15: the template is selected by the ordered rules on the lower-cased
\* evidence text, provenance rules first, then vulnerability rules, then
\* the template mapped to the type of the method; no other keyword has an
\* influence.
C15_SelectionRules ==
    Generated =>
        ret.templateName = RuleTemplate(args.evidenceReq, args.method.Type)

\* the keywords of the classification of evidence texts
ClassificationKeywords ==
    {"slsa", "provenance", "builder", "material", "buildtype", "build type",
     "sbom", "software bill of materials", "spdx", "cyclonedx",
     "vulnerabilit", "cve", "security scan", "vuln scan", "critical",
     "threshold", "scanner", "in-toto", "attestation"}

\* s begins with prefix
HasPrefix(s, prefix) ==
    Len(s) >= Len(prefix) /\ SubSeq(s, 1, Len(prefix)) = prefix

\* C16: for an evidence text with no classification keyword, an automatable
\* method and the built-in templates, GenerateCELFromMethod returns no error,
\* no predicate type, and the no-op true annotated with a comment that embeds
\* the evidence text.
C16_UnknownEvidence ==
    (/\ Generated
     /\ \A keyword \in ClassificationKeywords :
            ~Contains(ToLower(args.evidenceReq), keyword)
     /\ args.method.Type \in DOMAIN MethodTypeToCELTemplate
     /\ args.templates = DefaultCELTemplates)
    => /\ ret.result.err = NoError
       /\ ret.result.attestationTypes = <<>>
       /\ HasPrefix(ret.result.cel, "true /*")
       /\ args.evidenceReq # "" => Contains(ret.result.cel, args.evidenceReq)

\* the names of the placeholders of a template that parses
Placeholders(templateStr) ==
    { n.s : n \in { m \in Range(ParseTemplate(templateStr).nodes) : m.kind = "field" } }

\* C18: when the selected template is in the template set and cannot be
\* parsed, or references a placeholder the parameter map has no value for,
\* GenerateCELFromMethod returns an error that carries its cause, and not the
\* expression of the basic generator.
C18_TemplateError ==
    (/\ Generated
     /\ ret.templateName \in DOMAIN args.templates
     /\ \/ ~ParseTemplate(args.templates[ret.templateName]).ok
        \/ \E name \in Placeholders(args.templates[ret.templateName]) :
              name \notin DOMAIN args.params)
    => /\ ret.result.err # NoError
       /\ ret.result.err.cause # NoError
       /\ ret.result.cel = ""


\* ------------------------------------------------------------------------
\* C11, C13, C14, C17: the tenets of one plan (specification SpecPlan)
\* ------------------------------------------------------------------------

\* assessmentPlanToTenets has returned its tenets
PlanDone == args.fn = "assessmentPlanToTenets" /\ ret # Nil /\ ret.err = NoError

\* the types of the methods that can be automated
AutomatableTypes == {"automated", "gate", "behavioral", "autoremediation"}

\* the positions of the automatable methods of the plan
AutomatablePositions ==
    { i \in DOMAIN args.plan.EvaluationMethods :
        args.plan.EvaluationMethods[i].Type \in AutomatableTypes }

\* the j-th automatable method of the plan, counting from 0
AutomatableMethod(j) ==
    args.plan.EvaluationMethods[
        CHOOSE i \in AutomatablePositions :
            Cardinality({ k \in AutomatablePositions : k < i }) = j]

\* C11: the tenets of a plan correspond one-to-one and in order to its
\* methods of type automated, gate, behavioral or autoremediation; the j-th
\* of them, from 0, gives the tenet id {requirement-id}-{plan-id}-{j}; any
\* other method gives no tenet and takes no ordinal.
C11_TenetPerAutomatableMethod ==
    PlanDone =>
        /\ Len(ret.tenets) = Cardinality(AutomatablePositions)
        /\ \A j \in 0..(Len(ret.tenets) - 1) :
              /\ ret.tenets[j + 1].Id =
                    args.plan.RequirementId \o "-" \o args.plan.Id \o "-" \o ToString(j)
              /\ (args.options.Catalog = Nil /\ AutomatableMethod(j).Description # "")
                    => ret.tenets[j + 1].Title = AutomatableMethod(j).Description

\* C11 witness: a plan whose first method is not automatable and is followed
\* by two automatable ones has given the tenets with the ordinals 0 and 1
C11_Witness ==
    /\ PlanDone
    /\ Len(args.plan.EvaluationMethods) = 3
    /\ 1 \notin AutomatablePositions
    /\ Len(ret.tenets) = 2
    /\ ret.tenets[1].Id = "REQ-01-plan-01-0"
    /\ ret.tenets[2].Id = "REQ-01-plan-01-1"

\* the requirements of the catalog with the requirement id of the plan, each
\* with its control
Resolved ==
    IF args.options.Catalog = Nil THEN {}
    ELSE { p \in UNION { { <<c, r>> : r \in Range(c.AssessmentRequirements) } :
                          c \in Range(args.options.Catalog.Controls) } :
             p[2].Id = args.plan.RequirementId }

\* the control and the requirement the plan resolves to
ResolvedControl == (CHOOSE p \in Resolved : TRUE)[1]
ResolvedRequirement == (CHOOSE p \in Resolved : TRUE)[2]

\* the evidence text as a title: trimmed, and cut to 80 bytes ending in an
\* ellipsis when longer
EvidenceTitle ==
    LET text == TrimSpace(args.plan.EvidenceRequirements)
    IN  IF Len(text) > 80 THEN SubSeq(text, 1, 77) \o "..." ELSE text

\* C13: the title of a tenet is the description of its method if not empty;
\* otherwise the requirement text of the catalog enrichment if there is one
\* for the requirement id of the plan; otherwise the evidence text cut to 80
\* characters with an ellipsis; otherwise "{method-type} verification".
C13_TitlePriority ==
    PlanDone =>
        \A j \in 0..(Len(ret.tenets) - 1) :
            ret.tenets[j + 1].Title =
                IF AutomatableMethod(j).Description # ""
                THEN AutomatableMethod(j).Description
                ELSE IF Resolved # {} THEN ResolvedRequirement.Text
                ELSE IF args.plan.EvidenceRequirements # "" THEN EvidenceTitle
                ELSE AutomatableMethod(j).Type \o " verification"

\* C13 as amended: the title of a tenet is the requirement text of the
\* catalog enrichment if there is one and the text is not empty; otherwise
\* the title of the enrichment's control if not empty; otherwise the
\* description of the method if not empty; otherwise the evidence text, if
\* not empty, trimmed and cut to 80 bytes ending in an ellipsis; otherwise
\* "{method-type} verification".
C13_TitlePriorityAmended ==
    PlanDone =>
        \A j \in 0..(Len(ret.tenets) - 1) :
            ret.tenets[j + 1].Title =
                IF Resolved # {} /\ ResolvedRequirement.Text # ""
                THEN ResolvedRequirement.Text
                ELSE IF Resolved # {} /\ ResolvedControl.Title # ""
                THEN ResolvedControl.Title
                ELSE IF AutomatableMethod(j).Description # ""
                THEN AutomatableMethod(j).Description
                ELSE IF args.plan.EvidenceRequirements # "" THEN EvidenceTitle
                ELSE AutomatableMethod(j).Type \o " verification"

\* C13 witness: with the requirement resolved in the catalog but without
\* text, a tenet of a described method is titled by the control
C13_Witness ==
    /\ PlanDone
    /\ Resolved # {}
    /\ ResolvedRequirement.Text = ""
    /\ ResolvedControl.Title # ""
    /\ \E j \in 0..(Len(ret.tenets) - 1) :
          /\ AutomatableMethod(j).Description # ""
          /\ ret.tenets[j + 1].Title = ResolvedControl.Title

\* C14: with a catalog in which the requirement id of the plan resolves to a
\* requirement with a text, every tenet of the plan has that text as its
\* title, also when its method has a description.
C14_CatalogTitle ==
    (PlanDone /\ Resolved # {} /\ ResolvedRequirement.Text # "") =>
        \A j \in 0..(Len(ret.tenets) - 1) :
            ret.tenets[j + 1].Title = ResolvedRequirement.Text

\* C14 witness: the tenet of a described method is titled by the requirement
\* text of the catalog
C14_Witness ==
    /\ PlanDone
    /\ Resolved # {}
    /\ \E j \in 0..(Len(ret.tenets) - 1) :
          /\ AutomatableMethod(j).Description # ""
          /\ ret.tenets[j + 1].Title = "Verify build provenance is present and valid"

\* C17: for an evidence text naming SLSA provenance and a builder, in a plan
\* with a builder-id parameter and the built-in templates, each tenet has the
\* predicate types [SLSA provenance v1] and an expression that compares
\* attestation.predicateType with that type and the builder id with the
\* context reference context["builder-id"].
C17_BuilderContextReference ==
    (/\ PlanDone
     /\ \A keyword \in {"slsa", "provenance", "builder"} :
            Contains(ToLower(args.plan.EvidenceRequirements), keyword)
     /\ \E i \in DOMAIN args.plan.Parameters : args.plan.Parameters[i].Id = "builder-id"
     /\ args.options.CELTemplates = DefaultCELTemplates)
    => \A i \in DOMAIN ret.tenets :
          /\ ret.tenets[i].Predicates = <<"https://slsa.dev/provenance/v1">>
          /\ Contains(ret.tenets[i].Code,
                "attestation.predicateType == \"https://slsa.dev/provenance/v1\"")
          /\ Contains(ret.tenets[i].Code,
                "attestation.predicate.builder.id == context[\"builder-id\"]")

\* ------------------------------------------------------------------------
\* Properties of one call of FromPolicy
\* ------------------------------------------------------------------------

\* FromPolicy has returned a policy and no error
FromPolicySucceeded ==
    args.fn = "FromPolicy" /\ ret # Nil /\ ret.err = NoError

\* C12: when FromPolicy succeeds, no two tenets of the returned policy have
\* the same id.
C12_UniqueTenetIds ==
    FromPolicySucceeded =>
        \A i, j \in DOMAIN ret.policy.Tenets :
            i # j => ret.policy.Tenets[i].Id # ret.policy.Tenets[j].Id

\* the occurrences of parameters in the source policy: <<p, k>> for the k-th
\* parameter of the p-th plan
Occurrences ==
    UNION { { <<p, k>> : k \in DOMAIN args.policy.Adherence.AssessmentPlans[p].Parameters } :
              p \in DOMAIN args.policy.Adherence.AssessmentPlans }

\* the parameter at an occurrence
ParameterAt(o) == args.policy.Adherence.AssessmentPlans[o[1]].Parameters[o[2]]

\* occurrence a is before occurrence b in plan order
Before(a, b) == a[1] < b[1] \/ (a[1] = b[1] /\ a[2] < b[2])

\* the first parameter with the given id in plan order
FirstWithId(id) ==
    ParameterAt(CHOOSE o \in Occurrences :
                    /\ ParameterAt(o).Id = id
                    /\ \A other \in Occurrences :
                          ParameterAt(other).Id = id => ~Before(other, o))

\* the context entries of the returned policy for an id
EntriesOf(id) == { e[2] : e \in { x \in ret.policy.Context : x[1] = id } }

\* C19: the context of the returned policy has one entry per parameter id
\* of the source policy, made from the first parameter with that id in plan
\* order: with accepted values it is not required and its default and its
\* value are the first accepted value; without, it is required and default
\* and value are null.
C19_ContextEntries ==
    FromPolicySucceeded =>
        /\ { e[1] : e \in ret.policy.Context } =
               { ParameterAt(o).Id : o \in Occurrences }
        /\ \A o \in Occurrences :
              LET id == ParameterAt(o).Id
                  accepted == FirstWithId(id).AcceptedValues
              IN  /\ Cardinality(EntriesOf(id)) = 1
                  /\ \A entry \in EntriesOf(id) :
                        IF Len(accepted) >= 1
                        THEN /\ entry.Required = <<FALSE>>
                             /\ entry.Default = <<accepted[1]>>
                             /\ entry.Value = <<accepted[1]>>
                        ELSE /\ entry.Required = <<TRUE>>
                             /\ entry.Default = <<>>
                             /\ entry.Value = <<>>

\* C19 witness: builder-id occurs first without accepted values and in a
\* later plan with two, and is required without default; runtime-value has
\* one accepted value, which is its default
C19_Witness ==
    /\ FromPolicySucceeded
    /\ Len(args.policy.Adherence.AssessmentPlans) = 2
    /\ \E a, b \in Occurrences :
          /\ Before(a, b)
          /\ ParameterAt(a).Id = "builder-id" /\ ParameterAt(b).Id = "builder-id"
          /\ Len(ParameterAt(a).AcceptedValues) = 0
          /\ Len(ParameterAt(b).AcceptedValues) = 2
    /\ \E entry \in EntriesOf("builder-id") :
          entry.Required = <<TRUE>> /\ entry.Default = <<>> /\ entry.Value = <<>>
    /\ \E entry \in EntriesOf("runtime-value") :
          /\ entry.Required = <<FALSE>>
          /\ entry.Default = <<"at-build">> /\ entry.Value = <<"at-build">>

\* FromPolicy has returned
FromPolicyReturned == args.fn = "FromPolicy" /\ ret # Nil

\* no plan of the source policy has an automatable evaluation method
NoAutomatableMethod ==
    \A p \in DOMAIN args.policy.Adherence.AssessmentPlans :
        \A m \in DOMAIN args.policy.Adherence.AssessmentPlans[p].EvaluationMethods :
            args.policy.Adherence.AssessmentPlans[p].EvaluationMethods[m].Type
                \notin AutomatableTypes

SourcePlans == args.policy.Adherence.AssessmentPlans
CatalogControls == args.options.Catalog.Controls

\* the positions of the controls that hold a requirement with the
\* requirement id of the p-th plan
ResolvingControls(p) ==
    { c \in DOMAIN CatalogControls :
        \E r \in DOMAIN CatalogControls[c].AssessmentRequirements :
            CatalogControls[c].AssessmentRequirements[r].Id = SourcePlans[p].RequirementId }

\* the requirement id of the p-th plan resolves in the catalog
PlanResolves(p) ==
    /\ args.options.Catalog # Nil
    /\ SourcePlans[p].RequirementId # ""
    /\ ResolvingControls(p) # {}

\* the id of the control the p-th plan resolves to: the first in the catalog
ControlIdOfPlan(p) ==
    CatalogControls[CHOOSE c \in ResolvingControls(p) :
                        \A d \in ResolvingControls(p) : c <= d].Id

\* the p-th plan has an automatable evaluation method
HasAutomatableMethod(p) ==
    \E m \in DOMAIN SourcePlans[p].EvaluationMethods :
        SourcePlans[p].EvaluationMethods[m].Type \in AutomatableTypes

\* the control-reference list of the returned policy
ReturnedControls == ret.policy.Meta.Controls

\* no control id occurs twice in the control-reference list
NoControlTwice ==
    \A i, j \in DOMAIN ReturnedControls :
        i # j => ReturnedControls[i].Id # ReturnedControls[j].Id

\* C22: with a catalog, the control-reference list of the returned policy
\* has no control id twice and holds exactly the ids of the controls to
\* which the requirement ids of the plans resolve.
C22_ControlReferences ==
    (FromPolicySucceeded /\ args.options.Catalog # Nil) =>
        /\ NoControlTwice
        /\ { ReturnedControls[i].Id : i \in DOMAIN ReturnedControls } =
               { ControlIdOfPlan(p) : p \in { q \in DOMAIN SourcePlans : PlanResolves(q) } }

\* C22 as amended: with a catalog, the control-reference list of the
\* returned policy has no control id twice and holds exactly the ids of the
\* controls to which the requirement ids of the plans with at least one
\* automatable evaluation method resolve.
C22_ControlReferencesOfTenets ==
    (FromPolicySucceeded /\ args.options.Catalog # Nil) =>
        /\ NoControlTwice
        /\ { ReturnedControls[i].Id : i \in DOMAIN ReturnedControls } =
               { ControlIdOfPlan(p) :
                   p \in { q \in DOMAIN SourcePlans :
                             PlanResolves(q) /\ HasAutomatableMethod(q) } }

\* C22 witness: two plans with automatable methods resolve to the same
\* control, and the list holds that control once
C22_Witness ==
    /\ FromPolicySucceeded
    /\ args.options.Catalog # Nil
    /\ Len(SourcePlans) = 2
    /\ SourcePlans[1].RequirementId # SourcePlans[2].RequirementId
    /\ \A p \in {1, 2} : PlanResolves(p) /\ HasAutomatableMethod(p)
    /\ ControlIdOfPlan(1) = ControlIdOfPlan(2)
    /\ Len(ReturnedControls) = 1
    /\ ReturnedControls[1].Id = ControlIdOfPlan(1)

\* C23: FromPolicy is deterministic: called again on the same source policy,
\* catalog and options it returns the same result, the order of the tenets
\* and of the control references included.
C23_Deterministic ==
    [][(args.fn = "FromPolicy" /\ ret # Nil) => ret' = ret]_vars

\* the expression the generator returns for the j-th automatable method of
\* the plan
GeneratedExpression(j) ==
    GenerateCELFromMethod(AutomatableMethod(j), args.plan.EvidenceRequirements,
                          buildCELParams(args.plan.Parameters),
                          args.options.CELTemplates).cel

\* the scope of the source policy and the filter compiled from it
PolicyScope == args.policy.Scope.In
CompiledScope == ScopeFilterToCEL(PolicyScope)

\* C24: the scope filter is empty exactly when all four dimension lists are
\* empty; the expression of every tenet is "(<scope-filter>) &&
\* (<generated-expression>)" when scope filters are enabled and the filter
\* is not empty, and the generated expression itself otherwise.
C24_ScopeWrapper ==
    PlanDone =>
        /\ CompiledScope = "" <=>
              /\ PolicyScope.Technologies = <<>> /\ PolicyScope.Geopolitical = <<>>
              /\ PolicyScope.Sensitivity = <<>> /\ PolicyScope.Groups = <<>>
        /\ \A j \in 0..(Len(ret.tenets) - 1) :
              ret.tenets[j + 1].Code =
                  IF args.options.IncludeScopeFilters /\ CompiledScope # ""
                  THEN "(" \o CompiledScope \o ") && (" \o GeneratedExpression(j) \o ")"
                  ELSE GeneratedExpression(j)

\* C24 witness: scope filters are enabled, the scope is empty, and the
\* tenet has the generated expression without wrapper
C24_Witness ==
    /\ PlanDone
    /\ args.options.IncludeScopeFilters
    /\ PolicyScope = Dimensions(<<>>, <<>>, <<>>, <<>>)
    /\ Len(ret.tenets) > 0
    /\ ret.tenets[1].Code = GeneratedExpression(0)
    /\ ~HasPrefix(ret.tenets[1].Code, "(")

\* ------------------------------------------------------------------------
\* Properties of one call of InferAttestationType
\* ------------------------------------------------------------------------

\* InferAttestationType has returned
Inferred == args.fn = "InferAttestationType" /\ ret # Nil

\* the text in lower case contains one of the keywords
Mentions(keywords) ==
    \E keyword \in keywords : Contains(ToLower(args.evidenceReq), keyword)

\* the keywords of the three checks
ProvenanceKeywords == {"slsa", "provenance", "builder"}
VulnerabilityKeywords == {"vulnerabilit", "cve", "security scan", "vuln scan"}
StatementKeywords == {"in-toto", "attestation"}

C26_CustomTypesDeduplicated ==
    (args.fn = "InferAttestationTypes" /\ ret # Nil) =>
        \A i, j \in DOMAIN ret.CustomTypes :
            i # j => ret.CustomTypes[i] # ret.CustomTypes[j]

\* ------------------------------------------------------------------------
\* Properties of a second MergePolicy call on the result of the first
\* ------------------------------------------------------------------------

\* the second call has returned
MergedAgain == pc = "again"

\* C27: MergePolicy on the merged policy and the same generated policy
\* returns a policy equal to the merged policy, with every tenet of the
\* generated policy preserved, none added and none removed.
C27_RegenerationStable ==
    MergedAgain =>
        /\ ret.err = NoError
        /\ ret.merged = M
        /\ ret.stats.TenetsPreserved = Len(G.Tenets)
        /\ ret.stats.TenetsAdded = 0
        /\ ret.stats.TenetsRemoved = 0

\* ------------------------------------------------------------------------
\* C29: the predicate type of the expression and the predicate-type filter
\* (specification SpecGenerate)
\* ------------------------------------------------------------------------

\* the text with which an expression begins an equality check of the
\* predicate type
PredicateTypeCheck == "attestation.predicateType == \""

\* s up to its first double quote
UpToQuote(s) ==
    LET q == Index(s, "\"")
    IN  IF q = 0 THEN s ELSE SubSeq(s, 1, q - 1)

\* the predicate types that the expression cel equality-checks
CheckedPredicateTypes(cel) ==
    { UpToQuote(StrFrom(cel, i + Len(PredicateTypeCheck))) :
        i \in { j \in 1..(Len(cel) - Len(PredicateTypeCheck) + 1) :
                  SubSeq(cel, j, j + Len(PredicateTypeCheck) - 1) = PredicateTypeCheck } }

\* the generator produced the expression from a built-in template
FromBuiltInTemplate ==
    /\ Generated
    /\ args.templates = DefaultCELTemplates
    /\ ret.templateName \in DOMAIN DefaultCELTemplates
    /\ ret.result.err = NoError

\* C29: every predicate type that an expression generated from a built-in
\* template equality-checks is a member of the predicate-type list returned
\* with it, which assessmentPlanToTenets stores as the tenet's filter.
C29_ExpressionTypeInFilter ==
    FromBuiltInTemplate =>
        \A type \in CheckedPredicateTypes(ret.result.cel) :
            \E i \in DOMAIN ret.result.attestationTypes :
                ret.result.attestationTypes[i] = type



\* ------------------------------------------------------------------------
\* C30: the template maps across a call of FromPolicy (specification
\* SpecTemplates)
\* ------------------------------------------------------------------------

\* the call of FromPolicy with the caller's templates has returned
TemplatesCallReturned == args.fn = "FromPolicy with templates" /\ ret # Nil

\* the built-in templates with the caller's entries taking precedence
EffectiveTemplates ==
    LET custom == IF args.templates = Nil THEN <<>> ELSE args.templates
    IN  [n \in DOMAIN custom \cup DOMAIN DefaultCELTemplates |->
            IF n \in DOMAIN custom THEN custom[n] ELSE DefaultCELTemplates[n]]

\* C30: after FromPolicy the map the caller passed through WithCELTemplates
\* and the built-in template table hold exactly the entries they held before
\* the call, and the templates used for the generation are the built-ins
\* with the caller's entries taking precedence on equal names.
C30_TemplateMapsUnchanged ==
    TemplatesCallReturned =>
        /\ args.templates # Nil => ret.maps["templates"] = args.templates
        /\ ret.maps["DefaultCELTemplates"] = DefaultCELTemplates
        /\ ret.CELTemplates = EffectiveTemplates

====
